---- MODULE Spec2Model ----
(***************************************************************************)
(* VeilChain: a hash-chained ledger with a fee-prioritised mempool, a      *)
(* nullifier/commitment privacy ledger and a UTXO pool.                    *)
(*                                                                         *)
(* Conventions of the model                                                *)
(*  - A Python str is a record [len, lz, sum, body]: its length, the       *)
(*    number of leading '0' characters, a running digest of its tokens     *)
(*    and the token sequence itself.  Decimal digits are the tokens 0..9,  *)
(*    so f-string concatenation is real concatenation of digit tokens.     *)
(*  - sha256 returns a 64 character string that identifies its input       *)
(*    (the input's tokens between two bracket tokens: collision free) and  *)
(*    whose run of leading '0' characters is a deterministic function of   *)
(*    the input's digest.                                                  *)
(*  - Amounts and fees are integers in units of 0.001 coin; timestamps     *)
(*    are whole seconds.                                                   *)
(***************************************************************************)
EXTENDS Integers, Sequences, FiniteSets, TLC

(***************************************************************************)
(* Bounds of the model                                                     *)
(***************************************************************************)
\* the clock never runs past MaxTime seconds after the initial instant
MaxTime == 2
\* blocks the chain may gain over its initial length
MaxBlocks == 2
\* chains the node may adopt from peers
MaxReorgs == 1
\* Mempool.max_size; the code sets 1000 (mempool.py:26), the model scales
\* it down so that capacity eviction happens
max_size == 2
\* a modelled hash shows at most ZeroCap leading '0' characters
ZeroCap == 3
\* a Merkle tree under proof is built over at most MaxLeaves leaves
MaxLeaves == 5
\* a Merkle tree that is built again in another order has at most MaxOrdered
\* leaves
MaxOrdered == 4
\* callers hold at most MaxSignatures ring signatures
MaxSignatures == 2
\* the mixing pool takes at most MaxPool entries
MaxPool == 6
\* the tip of a chain handed to calculate_difficulty has a difficulty of
\* at most MaxDifficulty
MaxDifficulty == 4

(***************************************************************************)
(* Program constants                                                       *)
(***************************************************************************)
TARGET_BLOCK_TIME == 150
DIFFICULTY_ADJUSTMENT_INTERVAL == 20
MAX_BLOCK_SIZE == 2000000
MAX_TRANSACTIONS_PER_BLOCK == 1000
\* 12.5 coins, in units of 0.001
INITIAL_BLOCK_REWARD == 12500
HALVING_INTERVAL == 840000
\* 0.00000001 coin rounds to 0 units of 0.001
MINIMUM_REWARD == 0
\* validate_block_time: 7200 seconds
MAX_FUTURE_SECONDS == 7200
\* get_transactions_for_mining(max_transactions=100)
MINING_BATCH == 100
\* VeilChain.__init__: the default difficulty
DEFAULT_DIFFICULTY == 2
\* add_transaction(fee=0.001), in units of 0.001
DEFAULT_FEE == 1
max_reorg_depth == 6
\* MixingPool.min_pool_size
min_pool_size == 3
\* the 0.01 of mix_transactions, in units of 0.001
MIX_TOLERANCE == 10
\* length of a hexdigest
HEX_LEN == 64
\* sys.getsizeof of a Block instance (shallow size of the object, CPython)
BLOCK_OBJECT_SIZE == 48

(***************************************************************************)
(* Calls: what was called, with what argument, and what it returned        *)
(***************************************************************************)
NoCall == [op |-> "none", arg |-> "none", ret |-> FALSE]

(***************************************************************************)
(* Strings                                                                 *)
(***************************************************************************)
\* tokens other than the decimal digits 0..9: '.', and the two brackets that
\* delimit the input of a digest inside the digest's own token sequence
TokDot == 10
TokOpen == 11
TokClose == 12
\* the ':' of UTXO.get_id
TokColon == 19
\* the word "key_image", and the characters of the str() of a list: '[', ']',
\* the quote and the ", " between two items
TokKeyImage == 50
TokBracket == 51
TokBracketEnd == 52
TokQuote == 53
TokComma == 54

DigestModulus == 2 ^ ZeroCap

Max(a, b) == IF a >= b THEN a ELSE b
Min(a, b) == IF a <= b THEN a ELSE b

\* ""
EmptyStr == [len |-> 0, lz |-> 0, sum |-> 0, body |-> << >>]

\* a + b on str
Concat(a, b) ==
  [len |-> a.len + b.len,
   lz |-> IF a.lz = a.len THEN a.len + b.lz ELSE a.lz,
   sum |-> (a.sum + b.sum) % DigestModulus,
   body |-> a.body \o b.body]

\* a word made of one opaque token, n characters long, none of them '0'
Word(tok, n) == [len |-> n, lz |-> 0, sum |-> tok % DigestModulus, body |-> <<tok>>]

\* one decimal digit
DigitStr(d) == [len |-> 1, lz |-> IF d = 0 THEN 1 ELSE 0, sum |-> d % DigestModulus, body |-> <<d>>]

\* f"{n}" for an int n >= 0
RECURSIVE IntStr(_)
IntStr(n) == IF n < 10 THEN DigitStr(n) ELSE Concat(IntStr(n \div 10), DigitStr(n % 10))

\* f"{x}" for a float holding the whole number n: "n.0"
FloatStr(n) == Concat(IntStr(n), Concat(Word(TokDot, 1), DigitStr(0)))

\* f"{x}" for an amount of a units of 0.001: whole part, '.', thousandths
AmountStr(a) == Concat(IntStr(a \div 1000), Concat(Word(TokDot, 1), IntStr(a % 1000)))

\* the list with the elements f[1], ..., f[n], built once
List(f) == f \o << >>

\* ''.join(ss[lo..hi]), by halves
RECURSIVE JoinRange(_, _, _)
JoinRange(ss, lo, hi) ==
  IF lo > hi THEN EmptyStr
  ELSE IF lo = hi THEN ss[lo]
  ELSE LET mid == (lo + hi) \div 2
       IN Concat(JoinRange(ss, lo, mid), JoinRange(ss, mid + 1, hi))

\* ''.join(ss)
Join(ss) == JoinRange(ss, 1, Len(ss))

\* the run of leading '0' hex characters of the digest of an input whose
\* token digest is n: the number of trailing zero bits of n, at most k
RECURSIVE ZeroRun(_, _)
ZeroRun(n, k) == IF k = 0 \/ n % 2 = 1 THEN 0 ELSE 1 + ZeroRun(n \div 2, k - 1)

sha256(data) ==
  [len |-> HEX_LEN,
   lz |-> ZeroRun(data.sum, ZeroCap),
   sum |-> (data.sum + TokOpen + TokClose) % DigestModulus,
   body |-> <<TokOpen>> \o data.body \o <<TokClose>>]

\* s.startswith('0' * d)
StartsWithZeros(s, d) == d <= 0 \/ s.lz >= d

\* s[:d] == '0' * d, for d >= 0
PrefixIsZeros(s, d) == IF d <= 0 THEN TRUE ELSE s.len >= d /\ s.lz >= d

\* the addresses of the model, each one opaque token; no code checks what an
\* address is, and "bulk" is a string longer than MAX_BLOCK_SIZE characters
AddrStr(a) ==
  CASE a = "COINBASE" -> Word(14, 8)
    [] a = "alice" -> Word(15, 40)
    [] a = "bob" -> Word(16, 40)
    [] a = "miner" -> Word(17, 40)
    [] a = "bulk" -> Word(18, MAX_BLOCK_SIZE + 1)

\* an opaque hex string: id names its content, n is its length
HexStr(id, n) == Word(20 + id, n)

(***************************************************************************)
(* Transactions (transaction.py)                                           *)
(***************************************************************************)
TransparentTransaction(sender, recipient, amount, timestamp) ==
  [type |-> "transparent", sender |-> sender, recipient |-> recipient,
   amount |-> amount, timestamp |-> timestamp, signature |-> EmptyStr]

ShieldedTransaction(commitment, nullifier, proof, timestamp) ==
  [type |-> "shielded", commitment |-> commitment, nullifier |-> nullifier,
   proof |-> proof, timestamp |-> timestamp]

IsShielded(tx) == tx.type = "shielded"

\* a shielded transaction as ShieldedTransaction.create leaves it, holding
\* its private fields; a field that is None is the empty list
ShieldedTransaction_WithPrivate(commitment, nullifier, proof, timestamp, _sender, _recipient, _amount, _blinding_factor) ==
  [type |-> "shielded", commitment |-> commitment, nullifier |-> nullifier,
   proof |-> proof, timestamp |-> timestamp, _sender |-> _sender,
   _recipient |-> _recipient, _amount |-> _amount,
   _blinding_factor |-> _blinding_factor]

Transparent_to_dict(tx) ==
  [type |-> "transparent", sender |-> tx.sender, recipient |-> tx.recipient,
   amount |-> tx.amount, timestamp |-> tx.timestamp, signature |-> tx.signature]

\* a to_dict that copies the amount into the record
Shielded_to_dict_WithAmount(tx) ==
  [type |-> "shielded", commitment |-> tx.commitment, nullifier |-> tx.nullifier,
   proof |-> tx.proof, timestamp |-> tx.timestamp, _amount |-> tx._amount]

Shielded_to_dict(tx) ==
  [type |-> "shielded", commitment |-> tx.commitment, nullifier |-> tx.nullifier,
   proof |-> tx.proof, timestamp |-> tx.timestamp]

tx_to_dict(tx) ==
  IF IsShielded(tx) THEN Shielded_to_dict(tx) ELSE Transparent_to_dict(tx)

Transparent_calculate_hash(tx) ==
  sha256(Join(<<AddrStr(tx.sender), AddrStr(tx.recipient), AmountStr(tx.amount),
                FloatStr(tx.timestamp)>>))

Shielded_calculate_hash(tx) ==
  sha256(Join(<<tx.commitment, tx.nullifier, tx.proof, FloatStr(tx.timestamp)>>))

tx_calculate_hash(tx) ==
  IF IsShielded(tx) THEN Shielded_calculate_hash(tx) ELSE Transparent_calculate_hash(tx)

verify_proof(tx) == tx.proof.len = HEX_LEN /\ tx.commitment.len = HEX_LEN

(***************************************************************************)
(* Merkle tree (merkle.py)                                                 *)
(***************************************************************************)
\* MerkleNode(data=d).hash
MerkleLeaf(data) == sha256(data)

\* a parent that hashes its two children whichever comes first
MerkleParent_Unordered(left, right) ==
  IF left.sum <= right.sum THEN sha256(Concat(left, right)) ELSE sha256(Concat(right, left))

\* MerkleNode(left=l, right=r).hash
MerkleParent(left, right) == sha256(Concat(left, right))

\* one pass of the while loop of build_tree over the hashes of a level
MerkleNextLevel(nodes) ==
  List([k \in 1..((Len(nodes) + 1) \div 2) |->
          MerkleParent(nodes[2 * k - 1],
                       IF 2 * k <= Len(nodes) THEN nodes[2 * k] ELSE nodes[2 * k - 1])])

RECURSIVE MerkleReduce(_)
MerkleReduce(nodes) ==
  IF Len(nodes) <= 1 THEN nodes ELSE MerkleReduce(MerkleNextLevel(nodes))

\* MerkleTree(transactions).get_root_hash()
get_root_hash(transactions) ==
  IF transactions = << >> THEN EmptyStr
  ELSE MerkleReduce(List([i \in 1..Len(transactions) |-> MerkleLeaf(transactions[i])]))[1]

\* transaction in transactions
Holds(transactions, transaction) ==
  \E i \in 1..Len(transactions) : transactions[i] = transaction

\* transactions.index(transaction), counted from 0 as the code counts
IndexOf(transactions, transaction) ==
  (CHOOSE i \in 1..Len(transactions) :
     /\ transactions[i] = transaction
     /\ \A j \in 1..(i - 1) : transactions[j] # transaction) - 1

\* the for loop of get_proof from i on, over the hashes of one level; st is
\* the pair of the loop's variables index and proof
RECURSIVE ProofPass(_, _, _)
ProofPass(nodes, i, st) ==
  IF i >= Len(nodes) THEN st
  ELSE LET left == nodes[i + 1]
           right == IF i + 1 < Len(nodes) THEN nodes[i + 2] ELSE nodes[i + 1]
           element == [hash |-> IF i = st.index THEN right ELSE left,
                       position |-> IF i = st.index THEN "right" ELSE "left"]
       IN ProofPass(nodes, i + 2,
                    IF i = st.index \/ i + 1 = st.index
                    THEN [index |-> i \div 2, proof |-> Append(st.proof, element)]
                    ELSE st)

\* the while loop of get_proof
RECURSIVE ProofLevels(_, _)
ProofLevels(nodes, st) ==
  IF Len(nodes) <= 1 THEN st.proof
  ELSE ProofLevels(MerkleNextLevel(nodes), ProofPass(nodes, 0, st))

\* MerkleTree(transactions).get_proof(transaction)
get_proof(transactions, transaction) ==
  IF ~Holds(transactions, transaction) THEN << >>
  ELSE ProofLevels(List([i \in 1..Len(transactions) |-> MerkleLeaf(transactions[i])]),
                   [index |-> IndexOf(transactions, transaction), proof |-> << >>])

\* current_hash after the for loop of verify_proof went over proof[k..]
RECURSIVE FoldProof(_, _, _)
FoldProof(current_hash, proof, k) ==
  IF k > Len(proof) THEN current_hash
  ELSE FoldProof(IF proof[k].position = "right"
                 THEN sha256(Concat(current_hash, proof[k].hash))
                 ELSE sha256(Concat(proof[k].hash, current_hash)),
                 proof, k + 1)

\* MerkleTree.verify_proof(transaction_hash, proof, root_hash)
MerkleTree_verify_proof(transaction_hash, proof, root_hash) ==
  FoldProof(transaction_hash, proof, 1) = root_hash

(***************************************************************************)
(* Block (block.py)                                                        *)
(***************************************************************************)
TxHashes(transactions) ==
  List([i \in 1..Len(transactions) |-> tx_calculate_hash(transactions[i])])

\* Block(...) as the dataclass constructs it: nonce 0, hash "", merkle_root ""
Block(index, timestamp, transactions, previous_hash, d, version) ==
  [index |-> index, timestamp |-> timestamp, transactions |-> transactions,
   previous_hash |-> previous_hash, nonce |-> 0, hash |-> EmptyStr,
   difficulty |-> d, merkle_root |-> EmptyStr, version |-> version]

\* the part of block_string before the nonce
BlockHead(b) ==
  Join(<<IntStr(b.index), FloatStr(b.timestamp), Join(TxHashes(b.transactions)),
         b.previous_hash>>)

\* the digest of block_string, given the part of it before the nonce
HashFromHead(head, b) ==
  sha256(Concat(head, Join(<<IntStr(b.nonce), IntStr(b.difficulty), IntStr(b.version)>>)))

Block_calculate_hash(b) == HashFromHead(BlockHead(b), b)

Block_to_dict(b) ==
  [index |-> b.index, timestamp |-> b.timestamp,
   transactions |-> List([i \in 1..Len(b.transactions) |-> tx_to_dict(b.transactions[i])]),
   previous_hash |-> b.previous_hash, nonce |-> b.nonce, hash |-> b.hash,
   difficulty |-> b.difficulty, merkle_root |-> b.merkle_root, version |-> b.version]

calculate_merkle_root(b) ==
  IF b.transactions = << >> THEN sha256(Word(13, 5))
  ELSE get_root_hash(TxHashes(b.transactions))

verify_merkle_root(b) == calculate_merkle_root(b) = b.merkle_root

\* the proof-of-work loop gives up after MineFuel nonces in the model; with
\* d <= ZeroCap a nonce is always found sooner
MineFuel == 10 * DigestModulus

\* head is BlockHead(b), which the loop does not change
RECURSIVE MineLoop(_, _, _, _)
MineLoop(b, d, fuel, head) ==
  IF PrefixIsZeros(b.hash, d) \/ fuel = 0 THEN b
  ELSE LET c == [b EXCEPT !.nonce = @ + 1]
       IN MineLoop([c EXCEPT !.hash = HashFromHead(head, c)], d, fuel - 1, head)

\* the block after b.mine_block(d) returns
mine_block(b, d) ==
  LET c == [b EXCEPT !.difficulty = d]
  IN MineLoop([c EXCEPT !.merkle_root = calculate_merkle_root(c)], d, MineFuel,
              BlockHead(c))

(***************************************************************************)
(* Consensus rules (consensus.py)                                          *)
(***************************************************************************)
\* calculate_difficulty without the floor of a decrease
calculate_difficulty_NoFloor(ch) ==
  IF Len(ch) < DIFFICULTY_ADJUSTMENT_INTERVAL THEN 2
  ELSE LET first == ch[Len(ch) - DIFFICULTY_ADJUSTMENT_INTERVAL + 1]
           tip == ch[Len(ch)]
           time_taken == tip.timestamp - first.timestamp
           expected_time == TARGET_BLOCK_TIME * DIFFICULTY_ADJUSTMENT_INTERVAL
       IN IF 2 * time_taken < expected_time THEN tip.difficulty + 1
          ELSE IF time_taken > expected_time * 2 THEN tip.difficulty - 1
          ELSE tip.difficulty

calculate_difficulty(ch) ==
  IF Len(ch) < DIFFICULTY_ADJUSTMENT_INTERVAL THEN 2
  ELSE LET first == ch[Len(ch) - DIFFICULTY_ADJUSTMENT_INTERVAL + 1]
           tip == ch[Len(ch)]
           time_taken == tip.timestamp - first.timestamp
           expected_time == TARGET_BLOCK_TIME * DIFFICULTY_ADJUSTMENT_INTERVAL
       IN IF 2 * time_taken < expected_time THEN tip.difficulty + 1
          ELSE IF time_taken > expected_time * 2 THEN Max(1, tip.difficulty - 1)
          ELSE tip.difficulty

get_block_reward(block_height) ==
  LET halvings == block_height \div HALVING_INTERVAL
  IN Max(MINIMUM_REWARD, INITIAL_BLOCK_REWARD \div (2 ^ halvings))

validate_block_size(b) == BLOCK_OBJECT_SIZE <= MAX_BLOCK_SIZE

validate_transaction_count(b) == Len(b.transactions) <= MAX_TRANSACTIONS_PER_BLOCK

\* clock is the value time.time() returns inside the call
validate_block_time(b, previous_block, clock) ==
  IF b.timestamp <= previous_block.timestamp THEN FALSE
  ELSE IF b.timestamp > clock + MAX_FUTURE_SECONDS THEN FALSE
  ELSE TRUE

(***************************************************************************)
(* Mempool (mempool.py).  A mempool value is the pair of the object's      *)
(* fields: transactions (a list of entries) and transaction_fees (a dict). *)
(***************************************************************************)
EmptyMempool == [transactions |-> << >>, transaction_fees |-> << >>]

calculate_priority(transaction, fee, age) == fee * age

EntryPriority(e, current_time) ==
  calculate_priority(e.transaction, e.fee, current_time - e.timestamp)

\* [e for e in entries if e['hash'] != tx_hash]
WithoutHash(entries, tx_hash) ==
  LET Other(e) == e.hash # tx_hash
  IN SelectSeq(entries, Other)

\* a dict, its items evaluated
Dict(f) == f @@ << >>

\* dict.pop(key, None)
DictPop(d, key) == Dict([k \in (DOMAIN d) \ {key} |-> d[k]])

\* d[key] = value
DictSet(d, key, value) ==
  Dict([k \in (DOMAIN d) \cup {key} |-> IF k = key THEN value ELSE d[k]])

\* remove_transaction that leaves the fee of the transaction in the dict
remove_transaction_KeepFee(mp, tx_hash) ==
  [transactions |-> WithoutHash(mp.transactions, tx_hash),
   transaction_fees |-> mp.transaction_fees]

remove_transaction(mp, tx_hash) ==
  [transactions |-> WithoutHash(mp.transactions, tx_hash),
   transaction_fees |-> DictPop(mp.transaction_fees, tx_hash)]

\* min(entries, key=priority): the first entry of least priority
RECURSIVE FirstMin(_, _)
FirstMin(entries, current_time) ==
  IF Len(entries) = 1 THEN entries[1]
  ELSE LET rest == FirstMin(Tail(entries), current_time)
       IN IF EntryPriority(Head(entries), current_time) <= EntryPriority(rest, current_time)
          THEN Head(entries) ELSE rest

\* an eviction that removes the oldest entry, whatever its priority
evict_lowest_priority_Oldest(mp, current_time) ==
  IF mp.transactions = << >> THEN mp
  ELSE remove_transaction(mp, mp.transactions[1].hash)

evict_lowest_priority(mp, current_time) ==
  IF mp.transactions = << >> THEN mp
  ELSE remove_transaction(mp, FirstMin(mp.transactions, current_time).hash)

\* two sorted lists in one, the entries of right with the priority of an entry
\* of left in front of it
MergeByPriority_LaterFirst(left, right, current_time) ==
  LET LeftAt == List([i \in 1..Len(left) |->
                  i + Cardinality({j \in 1..Len(right) :
                        EntryPriority(right[j], current_time)
                          >= EntryPriority(left[i], current_time)})])
      RightAt == List([j \in 1..Len(right) |->
                   j + Cardinality({i \in 1..Len(left) :
                         EntryPriority(left[i], current_time)
                           > EntryPriority(right[j], current_time)})])
  IN List([k \in 1..(Len(left) + Len(right)) |->
             IF \E i \in 1..Len(left) : LeftAt[i] = k
             THEN left[CHOOSE i \in 1..Len(left) : LeftAt[i] = k]
             ELSE right[CHOOSE j \in 1..Len(right) : RightAt[j] = k]])

RECURSIVE SortRange_LaterFirst(_, _, _, _)
SortRange_LaterFirst(entries, lo, hi, current_time) ==
  IF lo > hi THEN << >>
  ELSE IF lo = hi THEN <<entries[lo]>>
  ELSE LET mid == (lo + hi) \div 2
       IN MergeByPriority_LaterFirst(SortRange_LaterFirst(entries, lo, mid, current_time),
                                     SortRange_LaterFirst(entries, mid + 1, hi, current_time),
                                     current_time)

\* a descending sort that puts the later of two entries of equal priority first
SortByPriority_LaterFirst(entries, current_time) ==
  SortRange_LaterFirst(entries, 1, Len(entries), current_time)

\* two sorted lists in one: descending, and an entry of left ahead of the
\* entries of right that have its priority
MergeByPriority(left, right, current_time) ==
  LET LeftAt == List([i \in 1..Len(left) |->
                  i + Cardinality({j \in 1..Len(right) :
                        EntryPriority(right[j], current_time)
                          > EntryPriority(left[i], current_time)})])
      RightAt == List([j \in 1..Len(right) |->
                   j + Cardinality({i \in 1..Len(left) :
                         EntryPriority(left[i], current_time)
                           >= EntryPriority(right[j], current_time)})])
  IN List([k \in 1..(Len(left) + Len(right)) |->
             IF \E i \in 1..Len(left) : LeftAt[i] = k
             THEN left[CHOOSE i \in 1..Len(left) : LeftAt[i] = k]
             ELSE right[CHOOSE j \in 1..Len(right) : RightAt[j] = k]])

\* entries lo..hi sorted by halves
RECURSIVE SortRange(_, _, _, _)
SortRange(entries, lo, hi, current_time) ==
  IF lo > hi THEN << >>
  ELSE IF lo = hi THEN <<entries[lo]>>
  ELSE LET mid == (lo + hi) \div 2
       IN MergeByPriority(SortRange(entries, lo, mid, current_time),
                          SortRange(entries, mid + 1, hi, current_time), current_time)

\* sorted(entries, key=priority, reverse=True): descending and stable
SortByPriority(entries, current_time) == SortRange(entries, 1, Len(entries), current_time)

get_transactions_for_mining(mp, max_transactions, current_time) ==
  LET sorted_transactions == SortByPriority(mp.transactions, current_time)
      n == Min(max_transactions, Len(sorted_transactions))
  IN List([i \in 1..n |-> sorted_transactions[i].transaction])

\* Mempool.add_transaction: the value returned and the mempool afterwards
Mempool_add_transaction(mp, transaction, fee, current_time) ==
  LET mp1 == IF Len(mp.transactions) >= max_size
             THEN evict_lowest_priority(mp, current_time) ELSE mp
      tx_hash == tx_calculate_hash(transaction)
  IN IF \E i \in 1..Len(mp1.transactions) : mp1.transactions[i].hash = tx_hash
     THEN [ret |-> FALSE, mempool |-> mp1]
     ELSE [ret |-> TRUE,
           mempool |->
             [transactions |-> Append(mp1.transactions,
                                      [transaction |-> transaction, hash |-> tx_hash,
                                       timestamp |-> current_time, fee |-> fee]),
              transaction_fees |-> DictSet(mp1.transaction_fees, tx_hash, fee)]]

(***************************************************************************)
(* Privacy layer (privacy.py)                                              *)
(***************************************************************************)
\* verify_shielded_transaction without the membership test on the nullifier
verify_shielded_transaction_NoNullifierCheck(nullifiers, commitments, transaction) ==
  IF ~verify_proof(transaction)
  THEN [ret |-> FALSE, nullifier_set |-> nullifiers, commitment_set |-> commitments]
  ELSE [ret |-> TRUE, nullifier_set |-> nullifiers \cup {transaction.nullifier},
        commitment_set |-> commitments \cup {transaction.commitment}]

\* verify_shielded_transaction recording the commitment before it checks
verify_shielded_transaction_EagerCommitment(nullifiers, commitments, transaction) ==
  LET recorded == commitments \cup {transaction.commitment}
  IN IF transaction.nullifier \in nullifiers
     THEN [ret |-> FALSE, nullifier_set |-> nullifiers, commitment_set |-> recorded]
     ELSE IF ~verify_proof(transaction)
     THEN [ret |-> FALSE, nullifier_set |-> nullifiers, commitment_set |-> recorded]
     ELSE [ret |-> TRUE, nullifier_set |-> nullifiers \cup {transaction.nullifier},
           commitment_set |-> recorded]

\* verify_shielded_transaction: the value returned and the two sets afterwards
verify_shielded_transaction(nullifiers, commitments, transaction) ==
  IF transaction.nullifier \in nullifiers
  THEN [ret |-> FALSE, nullifier_set |-> nullifiers, commitment_set |-> commitments]
  ELSE IF ~verify_proof(transaction)
  THEN [ret |-> FALSE, nullifier_set |-> nullifiers, commitment_set |-> commitments]
  ELSE [ret |-> TRUE, nullifier_set |-> nullifiers \cup {transaction.nullifier},
        commitment_set |-> commitments \cup {transaction.commitment}]

get_anonymity_set_size(commitments) == Cardinality(commitments)

(***************************************************************************)
(* UTXO pool (utxo.py): utxos is the dict of live outputs                  *)
(***************************************************************************)
\* UTXO(tx_id, output_index, address, amount, is_shielded)
UTXO(tx_id, output_index, address, amount, is_shielded) ==
  [tx_id |-> tx_id, output_index |-> output_index, address |-> address,
   amount |-> amount, is_shielded |-> is_shielded]

UTXO_get_id(utxo) == Join(<<utxo.tx_id, Word(TokColon, 1), IntStr(utxo.output_index)>>)

\* an Optional[UTXO] is a list: None is the empty one
None == << >>
Some(utxo) == <<utxo>>

\* add_utxo that does not look at the spent set
add_utxo_NoSpentCheck(pool, spent, utxo) == DictSet(pool, UTXO_get_id(utxo), utxo)

\* the dict of live outputs after add_utxo(utxo)
add_utxo(pool, spent, utxo) ==
  IF UTXO_get_id(utxo) \notin spent THEN DictSet(pool, UTXO_get_id(utxo), utxo) ELSE pool

\* spend_utxo that leaves the output in the dict
spend_utxo_NoPop(pool, spent, utxo_id) ==
  IF utxo_id \in DOMAIN pool
  THEN [ret |-> Some(pool[utxo_id]), utxos |-> pool, spent_utxos |-> spent \cup {utxo_id}]
  ELSE [ret |-> None, utxos |-> pool, spent_utxos |-> spent]

\* what spend_utxo(utxo_id) returns, and the two fields after it
spend_utxo(pool, spent, utxo_id) ==
  IF utxo_id \in DOMAIN pool
  THEN [ret |-> Some(pool[utxo_id]), utxos |-> DictPop(pool, utxo_id),
        spent_utxos |-> spent \cup {utxo_id}]
  ELSE [ret |-> None, utxos |-> pool, spent_utxos |-> spent]

get_utxo(pool, utxo_id) == IF utxo_id \in DOMAIN pool THEN Some(pool[utxo_id]) ELSE None

is_utxo_spent(spent, utxo_id) == utxo_id \in spent

get_total_utxos(pool) == Cardinality(DOMAIN pool)

get_utxos_for_address(pool, address) == {id \in DOMAIN pool : pool[id].address = address}

RECURSIVE SumAmounts(_, _)
SumAmounts(pool, ids) ==
  IF ids = {} THEN 0
  ELSE LET id == CHOOSE x \in ids : TRUE
       IN pool[id].amount + SumAmounts(pool, ids \ {id})

UTXOPool_get_balance(pool, address) == SumAmounts(pool, get_utxos_for_address(pool, address))

(***************************************************************************)
(* Chain (blockchain.py), as functions of the fields they read             *)
(***************************************************************************)
\* the block create_genesis_block appends
GenesisBlock(d, clock) ==
  LET g == Block(0, clock, << >>, DigitStr(0), d, 1)
      g1 == [g EXCEPT !.merkle_root = calculate_merkle_root(g)]
  IN [g1 EXCEPT !.hash = Block_calculate_hash(g1)]

get_latest_block(ch) == ch[Len(ch)]

\* validate_new_block without the comparison of stored and recomputed hash
validate_new_block_NoHashCheck(ch, b, clock) ==
  IF b.previous_hash # ch[Len(ch)].hash THEN FALSE
  ELSE IF ~StartsWithZeros(b.hash, b.difficulty) THEN FALSE
  ELSE IF ~verify_merkle_root(b) THEN FALSE
  ELSE IF ~validate_block_size(b) THEN FALSE
  ELSE IF ~validate_transaction_count(b) THEN FALSE
  ELSE IF Len(ch) > 0 /\ ~validate_block_time(b, ch[Len(ch)], clock) THEN FALSE
  ELSE TRUE

validate_new_block(ch, b, clock) ==
  IF b.hash # Block_calculate_hash(b) THEN FALSE
  ELSE IF b.previous_hash # get_latest_block(ch).hash THEN FALSE
  ELSE IF ~StartsWithZeros(b.hash, b.difficulty) THEN FALSE
  ELSE IF ~verify_merkle_root(b) THEN FALSE
  ELSE IF ~validate_block_size(b) THEN FALSE
  ELSE IF ~validate_transaction_count(b) THEN FALSE
  ELSE IF Len(ch) > 0 /\ ~validate_block_time(b, get_latest_block(ch), clock) THEN FALSE
  ELSE TRUE

\* is_chain_valid without the Merkle root check
is_chain_valid_NoMerkleCheck(ch) ==
  \A i \in 2..Len(ch) :
    /\ ch[i].hash = Block_calculate_hash(ch[i])
    /\ ch[i].previous_hash = ch[i - 1].hash
    /\ StartsWithZeros(ch[i].hash, ch[i].difficulty)

is_chain_valid(ch) ==
  \A i \in 2..Len(ch) :
    /\ ch[i].hash = Block_calculate_hash(ch[i])
    /\ ch[i].previous_hash = ch[i - 1].hash
    /\ verify_merkle_root(ch[i])
    /\ StartsWithZeros(ch[i].hash, ch[i].difficulty)

\* the difficulty mine_pending_transactions mines with
RetargetedDifficulty(ch, d) ==
  LET block_height == Len(ch)
  IN IF block_height > 0 /\ block_height % DIFFICULTY_ADJUSTMENT_INTERVAL = 0
     THEN calculate_difficulty(ch) ELSE d

\* a block built with the index after the chain length
MinedBlock_NextIndex(ch, mp, d, address, clock) ==
  LET block_height == Len(ch)
      reward_tx == TransparentTransaction("COINBASE", address,
                                          get_block_reward(block_height), clock)
      transactions == Append(get_transactions_for_mining(mp, MINING_BATCH, clock), reward_tx)
      d1 == RetargetedDifficulty(ch, d)
  IN mine_block(Block(block_height + 1, clock, transactions, get_latest_block(ch).hash, d1, 1),
                d1)

\* the block mine_pending_transactions builds and mines
MinedBlock(ch, mp, d, address, clock) ==
  LET block_height == Len(ch)
      reward_tx == TransparentTransaction("COINBASE", address,
                                          get_block_reward(block_height), clock)
      transactions == Append(get_transactions_for_mining(mp, MINING_BATCH, clock), reward_tx)
      d1 == RetargetedDifficulty(ch, d)
  IN mine_block(Block(block_height, clock, transactions, get_latest_block(ch).hash, d1, 1), d1)

\* the mempool after remove_transaction for transactions lo..hi, by halves;
\* the test on the first half has it evaluated before the second is begun
RECURSIVE RemoveRange(_, _, _, _)
RemoveRange(mp, transactions, lo, hi) ==
  IF lo > hi THEN mp
  ELSE IF lo = hi THEN remove_transaction(mp, tx_calculate_hash(transactions[lo]))
  ELSE LET mid == (lo + hi) \div 2
           done == RemoveRange(mp, transactions, lo, mid)
       IN IF Len(done.transactions) >= 0
          THEN RemoveRange(done, transactions, mid + 1, hi)
          ELSE done

\* the removal loop left out
RemoveAll_Keep(mp, transactions) == mp

\* the mempool after the transactions of an appended block were removed
RemoveAll(mp, transactions) == RemoveRange(mp, transactions, 1, Len(transactions))

\* mine_pending_transactions appending the block whatever validate_new_block says
mine_pending_transactions_NoCheck(ch, mp, d, address, clock) ==
  LET new_block == MinedBlock(ch, mp, d, address, clock)
      d1 == RetargetedDifficulty(ch, d)
  IN [mined |-> PrefixIsZeros(new_block.hash, d1), ret |-> TRUE,
      chain |-> Append(ch, new_block),
      mempool |-> RemoveAll(mp, new_block.transactions), difficulty |-> d1]

\* mine_pending_transactions: whether mine_block returned, whether the block was
\* appended, and the fields afterwards
mine_pending_transactions(ch, mp, d, address, clock) ==
  LET new_block == MinedBlock(ch, mp, d, address, clock)
      d1 == RetargetedDifficulty(ch, d)
      mined == PrefixIsZeros(new_block.hash, d1)
  IN IF validate_new_block(ch, new_block, clock)
     THEN [mined |-> mined, ret |-> TRUE, chain |-> Append(ch, new_block),
           mempool |-> RemoveAll(mp, new_block.transactions), difficulty |-> d1]
     ELSE [mined |-> mined, ret |-> FALSE, chain |-> ch, mempool |-> mp, difficulty |-> d1]

\* handle_chain_reorganization: the value returned, chain and orphaned_blocks afterwards
\* handle_chain_reorganization without the bound on the depth
handle_chain_reorganization_NoDepthCheck(ch, orphans, competing_chain) ==
  IF Len(competing_chain) <= Len(ch)
  THEN [ret |-> FALSE, chain |-> ch, orphaned_blocks |-> orphans]
  ELSE IF ~is_chain_valid(competing_chain)
  THEN [ret |-> FALSE, chain |-> ch, orphaned_blocks |-> orphans]
  ELSE [ret |-> TRUE, chain |-> competing_chain,
        orphaned_blocks |-> orphans \o SubSeq(ch, Len(competing_chain) + 1, Len(ch))]

\* handle_chain_reorganization swapping the chain in before it checks the depth
handle_chain_reorganization_EarlySwap(ch, orphans, competing_chain) ==
  LET reorg_depth == Len(ch) - Len(competing_chain)
      abs_depth == IF reorg_depth < 0 THEN -reorg_depth ELSE reorg_depth
  IN IF Len(competing_chain) <= Len(ch)
     THEN [ret |-> FALSE, chain |-> ch, orphaned_blocks |-> orphans]
     ELSE IF ~is_chain_valid(competing_chain)
     THEN [ret |-> FALSE, chain |-> ch, orphaned_blocks |-> orphans]
     ELSE [ret |-> abs_depth <= max_reorg_depth, chain |-> competing_chain,
           orphaned_blocks |-> orphans \o SubSeq(ch, Len(competing_chain) + 1, Len(ch))]

handle_chain_reorganization(ch, orphans, competing_chain) ==
  LET reorg_depth == Len(ch) - Len(competing_chain)
      abs_depth == IF reorg_depth < 0 THEN -reorg_depth ELSE reorg_depth
  IN IF Len(competing_chain) <= Len(ch)
     THEN [ret |-> FALSE, chain |-> ch, orphaned_blocks |-> orphans]
     ELSE IF ~is_chain_valid(competing_chain)
     THEN [ret |-> FALSE, chain |-> ch, orphaned_blocks |-> orphans]
     ELSE IF abs_depth > max_reorg_depth
     THEN [ret |-> FALSE, chain |-> ch, orphaned_blocks |-> orphans]
     ELSE [ret |-> TRUE, chain |-> competing_chain,
           orphaned_blocks |-> orphans \o SubSeq(ch, Len(competing_chain) + 1, Len(ch))]

(***************************************************************************)
(* Inputs of the model                                                     *)
(***************************************************************************)
Addresses == {"alice", "bob", "miner"}

\* the difficulty handed to the constructor: its default, and the least
Difficulties == {0, DEFAULT_DIFFICULTY}

NullifierA == HexStr(1, HEX_LEN)
NullifierB == HexStr(2, HEX_LEN)
NullifierC == HexStr(3, HEX_LEN)
NullifierD == HexStr(14, HEX_LEN)

\* a transfer by an address that owns no output
TxTransfer == TransparentTransaction("alice", "bob", 5000, 0)
\* two well-formed shielded transactions that carry the same nullifier
TxShieldA1 == ShieldedTransaction(HexStr(4, HEX_LEN), NullifierA, HexStr(5, HEX_LEN), 0)
TxShieldA2 == ShieldedTransaction(HexStr(6, HEX_LEN), NullifierA, HexStr(7, HEX_LEN), 0)
\* a well-formed shielded transaction with a nullifier of its own
TxShieldB == ShieldedTransaction(HexStr(8, HEX_LEN), NullifierB, HexStr(9, HEX_LEN), 0)
TxShieldD == ShieldedTransaction(HexStr(15, HEX_LEN), NullifierD, HexStr(16, HEX_LEN), 0)
\* shielded transactions whose commitment, or proof, is one character short
TxShortCommitment ==
  ShieldedTransaction(HexStr(10, HEX_LEN - 1), NullifierC, HexStr(11, HEX_LEN), 0)
TxShortProof ==
  ShieldedTransaction(HexStr(12, HEX_LEN), NullifierC, HexStr(13, HEX_LEN - 1), 0)

\* the outputs of the model: two outputs of one transaction, an output of
\* another transaction to the owner of the first, and an output that claims the
\* identifier of the first for another owner and amount
UtxoAlice0 == UTXO(tx_calculate_hash(TxTransfer), 0, "alice", 5000, FALSE)
UtxoBob1 == UTXO(tx_calculate_hash(TxTransfer), 1, "bob", 3000, FALSE)
UtxoAlice2 == UTXO(tx_calculate_hash(TxShieldB), 0, "alice", 2000, TRUE)
UtxoBob0 == UTXO(tx_calculate_hash(TxTransfer), 0, "bob", 7000, FALSE)
UTXOs == {UtxoAlice0, UtxoBob1, UtxoAlice2, UtxoBob0}

\* the identifiers callers ask for: those of the outputs, and one that no
\* output has
UtxoIds ==
  {UTXO_get_id(utxo) : utxo \in UTXOs}
    \cup {UTXO_get_id(UTXO(tx_calculate_hash(TxShieldB), 1, "bob", 0, FALSE))}

\* the transfers wallets submit to the mempool: more than it holds
TxTransferB == TransparentTransaction("bob", "alice", 3000, 0)
TxTransferC == TransparentTransaction("alice", "miner", 2000, 0)
TxTransferD == TransparentTransaction("miner", "bob", 1000, 0)
Transfers == {TxTransfer, TxTransferB, TxTransferC, TxTransferD}

\* the fee a wallet attaches: the default, twice or ten times the default
TransferFee(transaction) ==
  CASE transaction = TxTransferB -> 2 * DEFAULT_FEE
    [] transaction = TxTransferD -> 10 * DEFAULT_FEE
    [] OTHER -> DEFAULT_FEE

\* how many transactions a miner asks the mempool for
Limits == 0..(max_size + 1)

Transactions ==
  {TxTransfer, TxShieldA1, TxShieldA2, TxShieldB, TxShortCommitment, TxShortProof}

\* the fee each is submitted with, in units of 0.001: the default, or 0.01
FeeOf(transaction) == IF transaction = TxShieldA1 THEN 10 * DEFAULT_FEE ELSE DEFAULT_FEE

\* a block a peer mines on top of prev
PeerBlock(prev, index, timestamp, previous_hash) ==
  LET d == Max(1, prev.difficulty)
      reward_tx == TransparentTransaction("COINBASE", "bob", get_block_reward(index), timestamp)
  IN mine_block(Block(index, timestamp, <<reward_tx>>, previous_hash, d, 1), d)

\* a block a peer seals without searching a nonce, under a difficulty no digest
\* of the model meets
UnminedBlock(prev) ==
  LET reward_tx == TransparentTransaction("COINBASE", "bob", get_block_reward(prev.index + 1),
                                          prev.timestamp + 1)
      b == Block(prev.index + 1, prev.timestamp + 1, <<reward_tx>>, prev.hash, ZeroCap + 1, 1)
      c == [b EXCEPT !.merkle_root = calculate_merkle_root(b)]
  IN [c EXCEPT !.hash = Block_calculate_hash(c)]

\* the ways the last block of a competing chain is made: as an honest peer
\* would; with an index one too high; on the wrong predecessor; changed after
\* it was mined
Flavours == {"honest", "index", "link", "tampered"}

FlavouredBlock(prev, flavour) ==
  CASE flavour = "honest" -> PeerBlock(prev, prev.index + 1, prev.timestamp + 1, prev.hash)
    [] flavour = "index" -> PeerBlock(prev, prev.index + 2, prev.timestamp + 1, prev.hash)
    [] flavour = "link" -> PeerBlock(prev, prev.index + 1, prev.timestamp + 1, prev.previous_hash)
    [] flavour = "tampered" ->
         [PeerBlock(prev, prev.index + 1, prev.timestamp + 1, prev.hash)
            EXCEPT !.timestamp = @ + 1]
    [] flavour = "stale" -> PeerBlock(prev, prev.index + 1, prev.timestamp, prev.hash)
    [] flavour = "no_merkle" ->
         [PeerBlock(prev, prev.index + 1, prev.timestamp + 1, prev.hash)
            EXCEPT !.merkle_root = EmptyStr]
    [] flavour = "unmined" -> UnminedBlock(prev)

\* ch extended by n blocks honest peers mined
RECURSIVE Extend(_, _)
Extend(ch, n) ==
  IF n = 0 THEN ch
  ELSE Extend(Append(ch, FlavouredBlock(get_latest_block(ch), "honest")), n - 1)

\* the chain of a node that mined n blocks one second apart, nothing pending
RECURSIVE GrowChain(_, _, _, _)
GrowChain(ch, d, clock, n) ==
  IF n = 0 THEN ch
  ELSE LET r == mine_pending_transactions(ch, EmptyMempool, d, "miner", clock + 1)
       IN IF r.ret THEN GrowChain(r.chain, r.difficulty, clock + 1, n - 1) ELSE ch

\* blocks such a node has mined when its next block is the first to retarget
BootBlocks == DIFFICULTY_ADJUSTMENT_INTERVAL - 1

(***************************************************************************)
(* Ring signatures (mixing.py).  create_ring_signature and                 *)
(* verify_ring_signature give the pair of their result and of key_images   *)
(* after the call.                                                         *)
(***************************************************************************)
\* sha256(private_key + "key_image")
KeyImageOf(private_key) == sha256(Concat(private_key, Word(TokKeyImage, 9)))

\* the items of str(keys) from the k-th on
RECURSIVE ReprItems(_, _)
ReprItems(keys, k) ==
  IF k > Len(keys) THEN EmptyStr
  ELSE Join(<<IF k > 1 THEN Word(TokComma, 2) ELSE EmptyStr,
              Word(TokQuote, 1), keys[k], Word(TokQuote, 1), ReprItems(keys, k + 1)>>)

\* str(keys) for a list of str
ListStr(keys) == Join(<<Word(TokBracket, 1), ReprItems(keys, 1), Word(TokBracketEnd, 1)>>)

\* create_ring_signature that marks the key image spent at once
create_ring_signature_MarkSpent(images, private_key, public_keys, message, drawn) ==
  LET ring_size == Len(public_keys)
      key_image == KeyImageOf(private_key)
  IN IF key_image \in images THEN [ret |-> None, key_images |-> images]
     ELSE [ret |-> Some([key_image |-> key_image,
                         ring |-> public_keys,
                         c |-> List([i \in 1..ring_size |-> drawn[2 * i - 1]]),
                         r |-> List([i \in 1..ring_size |-> drawn[2 * i]]),
                         sig_hash |-> sha256(Join(<<key_image, message,
                                                    ListStr(public_keys)>>))]),
           key_images |-> images \cup {key_image}]

\* RingSignature.create_ring_signature(private_key, public_keys, message);
\* drawn lists what the calls of secrets.token_hex return, in their order
create_ring_signature(images, private_key, public_keys, message, drawn) ==
  LET ring_size == Len(public_keys)
      key_image == KeyImageOf(private_key)
  IN IF key_image \in images THEN [ret |-> None, key_images |-> images]
     ELSE [ret |-> Some([key_image |-> key_image,
                         ring |-> public_keys,
                         c |-> List([i \in 1..ring_size |-> drawn[2 * i - 1]]),
                         r |-> List([i \in 1..ring_size |-> drawn[2 * i]]),
                         sig_hash |-> sha256(Join(<<key_image, message,
                                                    ListStr(public_keys)>>))]),
           key_images |-> images]

\* verify_ring_signature without the look-up of the key image
verify_ring_signature_NoSpentCheck(images, signature, message) ==
  IF signature = None THEN [ret |-> FALSE, key_images |-> images]
  ELSE LET key_image == signature[1].key_image
       IN IF \/ Len(signature[1].c) # Len(signature[1].ring)
             \/ Len(signature[1].r) # Len(signature[1].ring)
          THEN [ret |-> FALSE, key_images |-> images]
          ELSE [ret |-> TRUE, key_images |-> images \cup {key_image}]

\* RingSignature.verify_ring_signature(signature, message); the signature is
\* None, which here stands for the empty dict as well ("not signature" holds
\* of both), or Some(dict)
verify_ring_signature(images, signature, message) ==
  IF signature = None THEN [ret |-> FALSE, key_images |-> images]
  ELSE LET key_image == signature[1].key_image
       IN IF key_image \in images THEN [ret |-> FALSE, key_images |-> images]
          ELSE IF \/ Len(signature[1].c) # Len(signature[1].ring)
                  \/ Len(signature[1].r) # Len(signature[1].ring)
          THEN [ret |-> FALSE, key_images |-> images]
          ELSE [ret |-> TRUE, key_images |-> images \cup {key_image}]

(***************************************************************************)
(* Mixing pool (mixing.py).  mix_transactions gives its result with the    *)
(* pool and the mixed outputs after the call.                              *)
(***************************************************************************)
\* abs(x)
Abs(x) == IF x < 0 THEN 0 - x ELSE x

\* MixingPool.add_to_pool(amount, commitment, timestamp): the pool after it
add_to_pool(entries, amount, commitment, timestamp) ==
  Append(entries, [amount |-> amount, commitment |-> commitment,
                   timestamp |-> timestamp, mixed |-> FALSE])

\* the places of the entries p with abs(p['amount'] - amount) < 0.01 and
\* not p['mixed'], in the order of the pool
SimilarAt(entries, amount) ==
  LET Similar(i) == Abs(entries[i].amount - amount) < MIX_TOLERANCE /\ ~entries[i].mixed
  IN SelectSeq(List([i \in 1..Len(entries) |-> i]), Similar)

\* mix_transactions that mixes what is there when the batch is not full
mix_transactions_Partial(entries, outputs, amount) ==
  LET similar == SimilarAt(entries, amount)
      chosen == SubSeq(similar, 1, Min(Len(similar), min_pool_size))
      taken == {chosen[k] : k \in 1..Len(chosen)}
  IN [ret |-> List([k \in 1..Len(chosen) |-> entries[chosen[k]].commitment]),
      pool |-> List([i \in 1..Len(entries) |->
                       IF i \in taken THEN [entries[i] EXCEPT !.mixed = TRUE]
                       ELSE entries[i]]),
      mixed_outputs |-> outputs \cup {entries[i].commitment : i \in taken}]

\* MixingPool.mix_transactions(amount)
mix_transactions(entries, outputs, amount) ==
  LET similar == SimilarAt(entries, amount)
      chosen == SubSeq(similar, 1, min_pool_size)
      taken == {chosen[k] : k \in 1..Len(chosen)}
  IN IF Len(similar) < min_pool_size
     THEN [ret |-> << >>, pool |-> entries, mixed_outputs |-> outputs]
     ELSE [ret |-> List([k \in 1..Len(chosen) |-> entries[chosen[k]].commitment]),
           pool |-> List([i \in 1..Len(entries) |->
                            IF i \in taken THEN [entries[i] EXCEPT !.mixed = TRUE]
                            ELSE entries[i]]),
           mixed_outputs |-> outputs \cup {entries[i].commitment : i \in taken}]

(***************************************************************************)
(* State                                                                   *)
(***************************************************************************)
VARIABLES
  chain,            \* VeilChain.chain
  difficulty,       \* VeilChain.difficulty
  orphaned_blocks,  \* VeilChain.orphaned_blocks
  mempool,          \* VeilChain.mempool
  nullifier_set,    \* VeilChain.privacy_layer.nullifier_set
  commitment_set,   \* VeilChain.privacy_layer.commitment_set
  utxos,            \* VeilChain.utxo_pool.utxos
  spent_utxos,      \* VeilChain.utxo_pool.spent_utxos
  now,              \* what time.time() returns
  base,             \* the chain length and the time the run started with
  adopted,          \* how many chains the node has adopted from peers
  last,             \* the last call: its name, its argument, what it returned
  merkle_tree,      \* MerkleTree.transactions of the tree a caller built
  block,            \* the Block a miner holds, if any
  search,           \* the argument of the mine_block call under way, if any
  key_images,       \* VeilChain.ring_signature.key_images
  signatures,       \* the signatures create_ring_signature has returned
  mixing_pool,      \* VeilChain.mixing_pool.pool
  mixed_outputs     \* VeilChain.mixing_pool.mixed_outputs

\* the objects a caller holds next to the node
aside == <<merkle_tree, block, search, key_images, signatures, mixing_pool,
          mixed_outputs>>

vars == <<chain, difficulty, orphaned_blocks, mempool, nullifier_set, commitment_set,
          utxos, spent_utxos, now, base, adopted, last, aside>>

\* MerkleTree([])
NoTree == merkle_tree = << >>

\* no miner holds a block
NoBlock == block = None /\ search = None

\* RingSignature(), no signature made
NoRing == key_images = {} /\ signatures = {}

\* MixingPool()
NoMix == mixing_pool = << >> /\ mixed_outputs = {}

NoObjects == NoTree /\ NoBlock /\ NoRing /\ NoMix

\* no call is under way
Idle == last.op = "none"

\* VeilChain(difficulty=d) at time clock
Constructed(d, clock) ==
  /\ chain = <<GenesisBlock(d, clock)>>
  /\ difficulty = d
  /\ orphaned_blocks = << >>
  /\ mempool = EmptyMempool
  /\ nullifier_set = {}
  /\ commitment_set = {}
  /\ utxos = << >>
  /\ spent_utxos = {}
  /\ now = clock
  /\ base = [len |-> 1, time |-> clock]
  /\ adopted = 0
  /\ last = NoCall
  /\ NoObjects

\* a node constructed with difficulty 1 that then mined BootBlocks blocks
Booted ==
  /\ chain = GrowChain(<<GenesisBlock(1, 0)>>, 1, 0, BootBlocks)
  /\ difficulty = 1
  /\ orphaned_blocks = << >>
  /\ mempool = EmptyMempool
  /\ nullifier_set = {}
  /\ commitment_set = {}
  /\ utxos = << >>
  /\ spent_utxos = {}
  /\ now = BootBlocks
  /\ base = [len |-> BootBlocks + 1, time |-> BootBlocks]
  /\ adopted = 0
  /\ last = NoCall
  /\ NoObjects

\* the i-th transfer of a backlog, and its entry: admitted at time 0 with the
\* default fee, the last of n with ten times the default
BacklogTransaction(i) == TransparentTransaction("alice", "bob", i, 0)

BacklogEntry(i, n) ==
  [transaction |-> BacklogTransaction(i), hash |-> tx_calculate_hash(BacklogTransaction(i)),
   timestamp |-> 0, fee |-> IF i = n THEN 10 * DEFAULT_FEE ELSE DEFAULT_FEE]

\* the mempool after add_transaction admitted n transfers
Backlog(n) ==
  LET entries == List([i \in 1..n |-> BacklogEntry(i, n)])
  IN [transactions |-> entries,
      transaction_fees |->
        [h \in {entries[i].hash : i \in 1..n} |->
           IF n > 0 /\ h = entries[n].hash THEN 10 * DEFAULT_FEE ELSE DEFAULT_FEE]]

\* how many transfers wait in the mempool of a node: none, one, as many as a
\* block takes, and more than that
Backlogs == {0, 1, MINING_BATCH, MINING_BATCH + 1, MINING_BATCH + 2}

\* VeilChain() whose mempool then admitted n transfers, all at time 0
Backlogged(n) ==
  /\ chain = <<GenesisBlock(DEFAULT_DIFFICULTY, 0)>>
  /\ difficulty = DEFAULT_DIFFICULTY
  /\ orphaned_blocks = << >>
  /\ mempool = Backlog(n)
  /\ nullifier_set = {}
  /\ commitment_set = {}
  /\ utxos = << >>
  /\ spent_utxos = {}
  /\ now = 0
  /\ base = [len |-> 1, time |-> 0]
  /\ adopted = 0
  /\ last = NoCall
  /\ NoObjects

InitBacklog == \E n \in Backlogs : Backlogged(n)

Init == \E d \in Difficulties : Constructed(d, 0)

\* VeilChain()
InitDefault == Constructed(DEFAULT_DIFFICULTY, 0)

(***************************************************************************)
(* Actions.  A call leaves its name, argument and result in last; Return   *)
(* is the caller taking the result, after which the next call can start.   *)
(***************************************************************************)
\* time passes; time.time() is the wall clock, two reads may return the same value
Tick ==
  /\ Idle
  /\ now < base.time + MaxTime
  /\ now' = now + 1
  /\ UNCHANGED <<chain, difficulty, orphaned_blocks, mempool, nullifier_set,
                 commitment_set, utxos, spent_utxos, base, adopted, last, aside>>

Return ==
  /\ ~Idle
  /\ last' = NoCall
  /\ UNCHANGED <<chain, difficulty, orphaned_blocks, mempool, nullifier_set,
                 commitment_set, utxos, spent_utxos, now, base, adopted, aside>>

\* VeilChain.add_transaction(transaction, fee)
AddTransaction(transaction, fee) ==
  LET checked == IF IsShielded(transaction)
                 THEN verify_shielded_transaction(nullifier_set, commitment_set, transaction)
                 ELSE [ret |-> TRUE, nullifier_set |-> nullifier_set,
                       commitment_set |-> commitment_set]
      added == Mempool_add_transaction(mempool, transaction, fee, now)
  IN /\ Idle
     /\ nullifier_set' = checked.nullifier_set
     /\ commitment_set' = checked.commitment_set
     /\ IF checked.ret
        THEN /\ mempool' = added.mempool
             /\ last' = [op |-> "add_transaction", arg |-> transaction, ret |-> added.ret]
        ELSE /\ mempool' = mempool
             /\ last' = [op |-> "add_transaction", arg |-> transaction, ret |-> FALSE]
     /\ UNCHANGED <<chain, difficulty, orphaned_blocks, utxos, spent_utxos, now, base,
                  adopted, aside>>

\* VeilChain.mine_pending_transactions(address), when mine_block returns; the
\* node has no peers, so broadcast_block sends nothing
MinePendingTransactions(address) ==
  LET r == mine_pending_transactions(chain, mempool, difficulty, address, now)
  IN /\ Idle
     /\ Len(chain) < base.len + MaxBlocks
     /\ r.mined
     /\ chain' = r.chain
     /\ mempool' = r.mempool
     /\ difficulty' = r.difficulty
     /\ last' = [op |-> "mine_pending_transactions", arg |-> address, ret |-> r.ret]
     /\ UNCHANGED <<orphaned_blocks, nullifier_set, commitment_set, utxos, spent_utxos,
                    now, base, adopted, aside>>

\* VeilChain.handle_chain_reorganization(competing_chain)
HandleChainReorganization(competing_chain) ==
  LET r == handle_chain_reorganization(chain, orphaned_blocks, competing_chain)
  IN /\ Idle
     /\ adopted < MaxReorgs
     /\ chain' = r.chain
     /\ orphaned_blocks' = r.orphaned_blocks
     /\ adopted' = IF r.ret THEN adopted + 1 ELSE adopted
     /\ last' = [op |-> "handle_chain_reorganization",
                 arg |-> [len |-> Len(competing_chain),
                          valid |-> is_chain_valid(competing_chain)],
                 ret |-> r.ret]
     /\ UNCHANGED <<difficulty, mempool, nullifier_set, commitment_set, utxos,
                    spent_utxos, now, base, aside>>

\* a peer hands over a chain that shares the first k blocks with this node's;
\* a chain that is not longer is refused whatever it holds, so of those the
\* peer hands over one
Reorganize ==
  \E k \in 1..Len(chain), n \in 1..MaxBlocks :
    /\ Idle
    /\ k + n <= base.len + MaxBlocks
    /\ LET stem == Extend(SubSeq(chain, 1, k), n - 1)
       IN \E flavour \in Flavours :
            /\ k + n > Len(chain) \/ (k = 1 /\ n = 1 /\ flavour = "honest")
            /\ HandleChainReorganization(
                 Append(stem, FlavouredBlock(get_latest_block(stem), flavour)))

\* more ways: with the timestamp of its predecessor; with no Merkle root; with
\* no proof of work
AllFlavours == Flavours \cup {"stale", "no_merkle", "unmined"}

\* how much longer than this node's chain the chain a peer hands over is
Leads == {0, 1, max_reorg_depth, max_reorg_depth + 1}

\* a peer hands over a chain forked at the genesis block or built on this
\* node's tip: one that is no longer, one block longer in every flavour, or
\* much longer and mined by honest peers
ReorganizeDeep ==
  \E k \in {1, Len(chain)}, lead \in Leads :
    LET n == Len(chain) - k + lead
    IN /\ Idle
       /\ adopted < MaxReorgs
       /\ n >= 1
       /\ LET stem == Extend(SubSeq(chain, 1, k), n - 1)
          IN \E flavour \in AllFlavours :
               /\ lead = 1 \/ flavour = "honest"
               /\ HandleChainReorganization(
                    Append(stem, FlavouredBlock(get_latest_block(stem), flavour)))

\* VeilChain.is_chain_valid() of a VeilChain whose chain is ch
IsChainValid(ch) ==
  /\ Idle
  /\ last' = [op |-> "is_chain_valid", arg |-> ch, ret |-> is_chain_valid(ch)]
  /\ UNCHANGED <<chain, difficulty, orphaned_blocks, mempool, nullifier_set,
                 commitment_set, utxos, spent_utxos, now, base, adopted, aside>>

\* the owner has the node validate its own chain
AuditOwnChain == IsChainValid(chain)

\* how many blocks honest peers mined on top of the flavoured block
Tails == {0, 1}

\* the chain of a peer is validated in a VeilChain of its own: the first k
\* blocks of this node's chain, a block of some flavour, and what honest peers
\* mined on top of it; on a block without proof of work, whose difficulty no
\* nonce meets, they mine nothing
AuditPeerChain ==
  \E k \in 1..Len(chain), flavour \in AllFlavours, tail \in Tails :
    LET stem == SubSeq(chain, 1, k)
    IN /\ tail = 0 \/ flavour # "unmined"
       /\ IsChainValid(Extend(Append(stem, FlavouredBlock(get_latest_block(stem), flavour)),
                              tail))

Admit == \E transaction \in Transactions : AddTransaction(transaction, FeeOf(transaction))

\* a wallet that submits one shielded transaction, again and again
AdmitOne == AddTransaction(TxShieldB, FeeOf(TxShieldB))

\* the shielded transactions a wallet submits: more of them, with nullifiers of
\* their own, than the mempool holds
ShieldedTransactions == {TxShieldA1, TxShieldA2, TxShieldB, TxShieldD}

AdmitShielded ==
  \E transaction \in ShieldedTransactions : AddTransaction(transaction, FeeOf(transaction))

Mine == \E address \in {"miner"} : MinePendingTransactions(address)

\* VeilChain.validate_new_block(block)
ValidateNewBlock(b) ==
  /\ Idle
  /\ last' = [op |-> "validate_new_block", arg |-> b,
              ret |-> validate_new_block(chain, b, now)]
  /\ UNCHANGED <<chain, difficulty, orphaned_blocks, mempool, nullifier_set,
                 commitment_set, utxos, spent_utxos, now, base, adopted, aside>>

\* a block as a peer may send it: built on the tip or on the block below it,
\* with few, very many or very large transactions, sealed in one of several ways
ManyTransactions ==
  List([i \in 1..(MAX_TRANSACTIONS_PER_BLOCK + 1) |->
          TransparentTransaction("COINBASE", "bob", get_block_reward(1), 0)])

\* one transaction that alone is larger than MAX_BLOCK_SIZE
BulkTransaction == TransparentTransaction("alice", "bulk", DEFAULT_FEE, 0)

Sealed(b, seal) ==
  CASE seal = "mined" -> mine_block(b, b.difficulty)
    [] seal = "unmined" ->
         LET c == [b EXCEPT !.merkle_root = calculate_merkle_root(b)]
         IN [c EXCEPT !.hash = Block_calculate_hash(c)]
    [] seal = "tampered" -> [mine_block(b, b.difficulty) EXCEPT !.version = @ + 1]
    [] seal = "no_merkle" -> [mine_block(b, b.difficulty) EXCEPT !.merkle_root = EmptyStr]

Seals == {"mined", "unmined", "tampered", "no_merkle"}

Validate ==
  LET tip == get_latest_block(chain)
  IN \/ \E timestamp \in {tip.timestamp, tip.timestamp + 1, now + MAX_FUTURE_SECONDS,
                          now + MAX_FUTURE_SECONDS + 1},
           previous_hash \in {tip.hash, tip.previous_hash},
           transactions \in {<< >>, SubSeq(ManyTransactions, 1, 2)},
           d \in 1..2, seal \in Seals :
        ValidateNewBlock(Sealed(Block(Len(chain), timestamp, transactions,
                                      previous_hash, d, 1), seal))
     \/ \E transactions \in {SubSeq(ManyTransactions, 1, MAX_TRANSACTIONS_PER_BLOCK),
                             ManyTransactions, <<BulkTransaction>>} :
        ValidateNewBlock(Sealed(Block(Len(chain), tip.timestamp + 1, transactions,
                                      tip.hash, 1, 1), "mined"))

Next == Tick \/ Return \/ Admit \/ Mine \/ Reorganize

\* a node constructed with the default difficulty, among peers
Spec == InitDefault /\ [][Next]_vars

\* the same node, its wallet submitting shielded transactions only
NextPeers == Tick \/ Return \/ AdmitShielded \/ Mine \/ Reorganize

SpecPeers == InitDefault /\ [][NextPeers]_vars

\* a node whose peers hand over chains of many lengths and flavours
\* Mempool.add_transaction(transaction, fee)
MempoolAddTransaction(transaction, fee) ==
  LET added == Mempool_add_transaction(mempool, transaction, fee, now)
  IN /\ Idle
     /\ mempool' = added.mempool
     /\ last' = [op |-> "Mempool.add_transaction",
                 arg |-> [transaction |-> transaction, fee |-> fee], ret |-> added.ret]
     /\ UNCHANGED <<chain, difficulty, orphaned_blocks, nullifier_set, commitment_set,
                    utxos, spent_utxos, now, base, adopted, aside>>

\* Mempool.get_transactions_for_mining(max_transactions)
GetTransactionsForMining(max_transactions) ==
  /\ Idle
  /\ last' = [op |-> "get_transactions_for_mining", arg |-> max_transactions,
              ret |-> get_transactions_for_mining(mempool, max_transactions, now)]
  /\ UNCHANGED <<chain, difficulty, orphaned_blocks, mempool, nullifier_set,
                 commitment_set, utxos, spent_utxos, now, base, adopted, aside>>

\* Mempool.remove_transaction(tx_hash)
MempoolRemoveTransaction(tx_hash) ==
  /\ Idle
  /\ mempool' = remove_transaction(mempool, tx_hash)
  /\ last' = [op |-> "remove_transaction",
              arg |-> [tx_hash |-> tx_hash,
                       held |-> \E p \in 1..Len(mempool.transactions) :
                                  mempool.transactions[p].hash = tx_hash],
              ret |-> None]
  /\ UNCHANGED <<chain, difficulty, orphaned_blocks, nullifier_set, commitment_set,
                 utxos, spent_utxos, now, base, adopted, aside>>

\* a caller drops a transfer, whether the mempool holds it or not
Drop == \E transaction \in Transfers : MempoolRemoveTransaction(tx_calculate_hash(transaction))

Submit == \E transaction \in Transfers : MempoolAddTransaction(transaction, TransferFee(transaction))

Collect == \E max_transactions \in Limits : GetTransactionsForMining(max_transactions)

\* wallets and a miner at the node's mempool while time passes
NextMempool == Tick \/ Return \/ Submit \/ Collect \/ Drop

SpecMempool == InitDefault /\ [][NextMempool]_vars

\* UTXOPool.add_utxo(utxo)
AddUtxo(utxo) ==
  /\ Idle
  /\ utxos' = add_utxo(utxos, spent_utxos, utxo)
  /\ last' = [op |-> "add_utxo", arg |-> utxo, ret |-> None]
  /\ UNCHANGED <<chain, difficulty, orphaned_blocks, mempool, nullifier_set,
                 commitment_set, spent_utxos, now, base, adopted, aside>>

\* UTXOPool.spend_utxo(utxo_id)
SpendUtxo(utxo_id) ==
  LET r == spend_utxo(utxos, spent_utxos, utxo_id)
  IN /\ Idle
     /\ utxos' = r.utxos
     /\ spent_utxos' = r.spent_utxos
     /\ last' = [op |-> "spend_utxo", arg |-> utxo_id, ret |-> r.ret]
     /\ UNCHANGED <<chain, difficulty, orphaned_blocks, mempool, nullifier_set,
                    commitment_set, now, base, adopted, aside>>

\* UTXOPool.get_utxo(utxo_id)
GetUtxo(utxo_id) ==
  /\ Idle
  /\ last' = [op |-> "get_utxo", arg |-> utxo_id, ret |-> get_utxo(utxos, utxo_id)]
  /\ UNCHANGED <<chain, difficulty, orphaned_blocks, mempool, nullifier_set,
                 commitment_set, utxos, spent_utxos, now, base, adopted, aside>>

Credit == \E utxo \in UTXOs : AddUtxo(utxo)

Spend == \E utxo_id \in UtxoIds : SpendUtxo(utxo_id)

Lookup == \E utxo_id \in UtxoIds : GetUtxo(utxo_id)

\* the callers of the node's UTXO pool
NextUTXO == Return \/ Credit \/ Spend \/ Lookup

SpecUTXO == InitDefault /\ [][NextUTXO]_vars

(***************************************************************************)
(* Callers of a Merkle tree (merkle.py)                                    *)
(***************************************************************************)
\* the hash of a transaction as a caller gives it to a tree: an opaque
\* hexdigest
LeafHash(i) == HexStr(i, HEX_LEN)

\* the transaction hashes of which the trees under proof are built
LeafHashes == {LeafHash(1), LeafHash(2), LeafHash(3)}

\* the lists of at most n elements of S
RECURSIVE ListsOver(_, _)
ListsOver(S, n) ==
  IF n = 0 THEN {<< >>}
  ELSE LET shorter == ListsOver(S, n - 1)
       IN shorter \cup {Append(l, x) : l \in {m \in shorter : Len(m) = n - 1}, x \in S}

\* the lists that hold every element of S once
RECURSIVE Orderings(_)
Orderings(S) ==
  IF S = {} THEN {<< >>}
  ELSE UNION {{<<x>> \o o : o \in Orderings(S \ {x})} : x \in S}

\* a hexdigest no tree of the model holds
ForeignHash == HexStr(0, HEX_LEN)

\* VeilChain() next to MerkleTree(transactions)
WithTree(transactions) ==
  /\ chain = <<GenesisBlock(DEFAULT_DIFFICULTY, 0)>>
  /\ difficulty = DEFAULT_DIFFICULTY
  /\ orphaned_blocks = << >>
  /\ mempool = EmptyMempool
  /\ nullifier_set = {}
  /\ commitment_set = {}
  /\ utxos = << >>
  /\ spent_utxos = {}
  /\ now = 0
  /\ base = [len |-> 1, time |-> 0]
  /\ adopted = 0
  /\ last = NoCall
  /\ merkle_tree = transactions
  /\ NoBlock
  /\ NoRing
  /\ NoMix

InitMerkle == \E transactions \in ListsOver(LeafHashes, MaxLeaves) : WithTree(transactions)

\* MerkleTree.get_root_hash()
GetRootHash ==
  /\ Idle
  /\ last' = [op |-> "get_root_hash", arg |-> merkle_tree, ret |-> get_root_hash(merkle_tree)]
  /\ UNCHANGED <<chain, difficulty, orphaned_blocks, mempool, nullifier_set,
                 commitment_set, utxos, spent_utxos, now, base, adopted, aside>>

\* MerkleTree.get_proof(transaction)
GetProof(transaction) ==
  /\ Idle
  /\ last' = [op |-> "get_proof", arg |-> transaction,
              ret |-> get_proof(merkle_tree, transaction)]
  /\ UNCHANGED <<chain, difficulty, orphaned_blocks, mempool, nullifier_set,
                 commitment_set, utxos, spent_utxos, now, base, adopted, aside>>

\* what a caller may ask a proof for: a transaction hash, the root of the
\* tree, and the hashes of the tree's first two nodes written one after the
\* other
Claims(transactions) ==
  LeafHashes \cup {get_root_hash(transactions)}
    \cup (IF Len(transactions) >= 2
          THEN {Concat(MerkleLeaf(transactions[1]), MerkleLeaf(transactions[2]))}
          ELSE {})

\* what a caller does to a proof before handing it to verify_proof: nothing;
\* another hash for the sibling at one place; the other side at one place;
\* another root to compare with
Tampers(proof, root_hash) ==
  {[kind |-> "none", at |-> 0, hash |-> root_hash]}
    \cup {[kind |-> "sibling", at |-> k, hash |-> h] :
            k \in 1..Len(proof), h \in {ForeignHash, EmptyStr, root_hash}}
    \cup {[kind |-> "side", at |-> k, hash |-> root_hash] : k \in 1..Len(proof)}
    \cup {[kind |-> "root", at |-> 0, hash |-> h] :
            h \in {ForeignHash, EmptyStr, MerkleLeaf(ForeignHash)}}

Tampered(proof, tamper) ==
  CASE tamper.kind = "sibling" -> [proof EXCEPT ![tamper.at].hash = tamper.hash]
    [] tamper.kind = "side" ->
         [proof EXCEPT ![tamper.at].position = IF @ = "right" THEN "left" ELSE "right"]
    [] OTHER -> proof

\* MerkleTree.verify_proof(transaction_hash, proof, root_hash), by a caller
\* who took the proof of transaction from get_proof and the root from
\* get_root_hash; hashed says whether the caller passes the digest of the
\* transaction hash, as a leaf node holds it, or the transaction hash itself
VerifyProof(transaction, hashed, tamper) ==
  LET transaction_hash == IF hashed THEN sha256(transaction) ELSE transaction
      proof == Tampered(get_proof(merkle_tree, transaction), tamper)
      root_hash == IF tamper.kind = "root" THEN tamper.hash
                   ELSE get_root_hash(merkle_tree)
  IN /\ Idle
     /\ last' = [op |-> "verify_proof",
                 arg |-> [transaction |-> transaction, hashed |-> hashed,
                          tamper |-> tamper, transaction_hash |-> transaction_hash,
                          proof |-> proof, root_hash |-> root_hash],
                 ret |-> MerkleTree_verify_proof(transaction_hash, proof, root_hash)]
     /\ UNCHANGED <<chain, difficulty, orphaned_blocks, mempool, nullifier_set,
                    commitment_set, utxos, spent_utxos, now, base, adopted, aside>>

Prove == \E transaction \in Claims(merkle_tree) : GetProof(transaction)

Verify ==
  \E transaction \in Claims(merkle_tree), hashed \in BOOLEAN :
    \E tamper \in Tampers(get_proof(merkle_tree, transaction), get_root_hash(merkle_tree)) :
      VerifyProof(transaction, hashed, tamper)

\* the callers of a Merkle tree
NextMerkle == Return \/ GetRootHash \/ Prove \/ Verify

SpecMerkle == InitMerkle /\ [][NextMerkle]_vars

\* MerkleTree(transactions), in place of the tree the caller held; the
\* result is the root hash of the new tree
Build(transactions) ==
  /\ Idle
  /\ merkle_tree' = transactions
  /\ last' = [op |-> "MerkleTree",
              arg |-> [transactions |-> transactions, replaced |-> merkle_tree],
              ret |-> get_root_hash(transactions)]
  /\ UNCHANGED <<chain, difficulty, orphaned_blocks, mempool, nullifier_set,
                 commitment_set, utxos, spent_utxos, now, base, adopted, block, search,
                 key_images, signatures,
                 mixing_pool, mixed_outputs>>

\* the elements of a list
Elements(transactions) == {transactions[i] : i \in 1..Len(transactions)}

\* a caller builds a tree over the leaves of the tree it holds, in any order
Rebuild == \E transactions \in Orderings(Elements(merkle_tree)) : Build(transactions)

\* trees of pairwise distinct leaves
InitBuild == \E n \in 0..MaxOrdered : WithTree(List([i \in 1..n |-> LeafHash(i)]))

\* the builders of Merkle trees
NextBuild == Return \/ GetRootHash \/ Rebuild

SpecBuild == InitBuild /\ [][NextBuild]_vars

(***************************************************************************)
(* A miner with a block of its own (block.py)                              *)
(***************************************************************************)
\* the blocks a miner constructs on the genesis block: Block(1, timestamp,
\* transactions, previous_hash), with the dataclass's defaults
FreshBlocks ==
  {Block(1, timestamp, transactions, GenesisBlock(DEFAULT_DIFFICULTY, 0).hash,
         DEFAULT_DIFFICULTY, 1) :
     timestamp \in 1..MaxTime,
     transactions \in {<< >>, <<TxTransfer>>, <<TxTransfer, TxTransferB>>}}

\* VeilChain() next to a miner who holds the block b
WithBlock(b) ==
  /\ chain = <<GenesisBlock(DEFAULT_DIFFICULTY, 0)>>
  /\ difficulty = DEFAULT_DIFFICULTY
  /\ orphaned_blocks = << >>
  /\ mempool = EmptyMempool
  /\ nullifier_set = {}
  /\ commitment_set = {}
  /\ utxos = << >>
  /\ spent_utxos = {}
  /\ now = 0
  /\ base = [len |-> 1, time |-> 0]
  /\ adopted = 0
  /\ last = NoCall
  /\ NoTree
  /\ block = Some(b)
  /\ search = None
  /\ NoRing
  /\ NoMix

InitMine == \E b \in FreshBlocks : WithBlock(b)

\* the difficulties a miner asks for: a modelled hash shows no more than
\* ZeroCap leading zeros
Targets == 0..ZeroCap

\* block.mine_block(d) is called on a block with nonce 0 and no hash, and
\* runs up to its loop
MineBlockBegin(d) ==
  LET c == [block[1] EXCEPT !.difficulty = d]
  IN /\ Idle
     /\ search = None
     /\ block # None
     /\ block[1].nonce = 0
     /\ block[1].hash = EmptyStr
     /\ block' = Some([c EXCEPT !.merkle_root = calculate_merkle_root(c)])
     /\ search' = Some(d)
     /\ UNCHANGED <<chain, difficulty, orphaned_blocks, mempool, nullifier_set,
                    commitment_set, utxos, spent_utxos, now, base, adopted, last,
                    merkle_tree, key_images, signatures,
                 mixing_pool, mixed_outputs>>

\* one pass of the loop of mine_block
MineBlockStep ==
  /\ search # None
  /\ ~PrefixIsZeros(block[1].hash, search[1])
  /\ LET c == [block[1] EXCEPT !.nonce = @ + 1]
     IN block' = Some([c EXCEPT !.hash = Block_calculate_hash(c)])
  /\ UNCHANGED <<chain, difficulty, orphaned_blocks, mempool, nullifier_set,
                 commitment_set, utxos, spent_utxos, now, base, adopted, last,
                 merkle_tree, search, key_images, signatures,
                 mixing_pool, mixed_outputs>>

\* the loop of mine_block ends and the call returns
MineBlockEnd ==
  /\ search # None
  /\ PrefixIsZeros(block[1].hash, search[1])
  /\ search' = None
  /\ last' = [op |-> "mine_block", arg |-> search[1], ret |-> None]
  /\ UNCHANGED <<chain, difficulty, orphaned_blocks, mempool, nullifier_set,
                 commitment_set, utxos, spent_utxos, now, base, adopted, merkle_tree,
                 block, key_images, signatures,
                 mixing_pool, mixed_outputs>>

MineBlock == \E d \in Targets : MineBlockBegin(d)

\* a miner at work on its block
NextMine == Return \/ MineBlock \/ MineBlockStep \/ MineBlockEnd

SpecMine == InitMine /\ [][NextMine]_vars

(***************************************************************************)
(* Signers and verifiers of ring signatures (mixing.py)                    *)
(***************************************************************************)
\* two secrets, three public keys, two messages: opaque strings
PrivateKeys == {HexStr(17, HEX_LEN), HexStr(18, HEX_LEN)}

Rings == {<<HexStr(21, 40), HexStr(22, 40)>>,
          <<HexStr(21, 40), HexStr(22, 40), HexStr(23, 40)>>}

Messages == {HexStr(24, 5), HexStr(25, 5)}

\* what secrets.token_hex(32) returns in one call of create_ring_signature:
\* one of two runs of hexdigests
TokenRuns == {[k \in 1..6 |-> HexStr(26, HEX_LEN)], [k \in 1..6 |-> HexStr(27, HEX_LEN)]}

\* RingSignature.create_ring_signature(private_key, public_keys, message)
CreateRingSignature(private_key, public_keys, message, drawn) ==
  LET made == create_ring_signature(key_images, private_key, public_keys, message, drawn)
  IN /\ Idle
     /\ IF made.ret = None THEN TRUE
        ELSE IF made.ret[1] \in signatures THEN TRUE
        ELSE Cardinality(signatures) < MaxSignatures
     /\ key_images' = made.key_images
     /\ signatures' = IF made.ret = None THEN signatures ELSE signatures \cup {made.ret[1]}
     /\ last' = [op |-> "create_ring_signature",
                 arg |-> [private_key |-> private_key, public_keys |-> public_keys,
                          message |-> message],
                 ret |-> made.ret]
     /\ UNCHANGED <<chain, difficulty, orphaned_blocks, mempool, nullifier_set,
                    commitment_set, utxos, spent_utxos, now, base, adopted,
                    merkle_tree, block, search, mixing_pool, mixed_outputs>>

\* RingSignature.verify_ring_signature(signature, message)
VerifyRingSignature(signature, message) ==
  LET checked == verify_ring_signature(key_images, signature, message)
  IN /\ Idle
     /\ key_images' = checked.key_images
     /\ last' = [op |-> "verify_ring_signature",
                 arg |-> [signature |-> signature, message |-> message],
                 ret |-> checked.ret]
     /\ UNCHANGED <<chain, difficulty, orphaned_blocks, mempool, nullifier_set,
                    commitment_set, utxos, spent_utxos, now, base, adopted,
                    merkle_tree, block, search, signatures, mixing_pool,
                    mixed_outputs>>

\* what a verifier is handed: no signature; a signature as it was made; one
\* whose c or r lost an entry
Presented(made) ==
  {None} \cup {Some(s) : s \in made}
    \cup {Some([s EXCEPT !.c = Tail(@)]) : s \in made}
    \cup {Some([s EXCEPT !.r = Tail(@)]) : s \in made}

Sign ==
  \E private_key \in PrivateKeys, public_keys \in Rings, message \in Messages,
     drawn \in TokenRuns :
    CreateRingSignature(private_key, public_keys, message, drawn)

Check ==
  \E signature \in Presented(signatures), message \in Messages :
    VerifyRingSignature(signature, message)

\* the signers and verifiers at a node
NextRing == Return \/ Sign \/ Check

SpecRing == InitDefault /\ [][NextRing]_vars

(***************************************************************************)
(* Users of the mixing pool (mixing.py)                                    *)
(***************************************************************************)
\* amounts in units of 0.001.  Users deposit 1.0 and 1.01, which are not
\* within 0.01 of each other; they ask for a mix of these and of 1.005, which
\* is within 0.01 of both
DepositAmounts == {1000, 1010}

MixAmounts == DepositAmounts \cup {1005}

MixCommitments == {HexStr(4, HEX_LEN), HexStr(6, HEX_LEN)}

\* MixingPool.add_to_pool(amount, commitment, timestamp)
AddToPool(amount, commitment, timestamp) ==
  /\ Idle
  /\ Len(mixing_pool) < MaxPool
  /\ mixing_pool' = add_to_pool(mixing_pool, amount, commitment, timestamp)
  /\ last' = [op |-> "add_to_pool", arg |-> [amount |-> amount, commitment |-> commitment],
              ret |-> TRUE]
  /\ UNCHANGED <<chain, difficulty, orphaned_blocks, mempool, nullifier_set,
                 commitment_set, utxos, spent_utxos, now, base, adopted, merkle_tree,
                 block, search, key_images, signatures, mixed_outputs>>

\* MixingPool.mix_transactions(amount)
MixTransactions(amount) ==
  LET mixed == mix_transactions(mixing_pool, mixed_outputs, amount)
  IN /\ Idle
     /\ mixing_pool' = mixed.pool
     /\ mixed_outputs' = mixed.mixed_outputs
     /\ last' = [op |-> "mix_transactions", arg |-> amount, ret |-> mixed.ret]
     /\ UNCHANGED <<chain, difficulty, orphaned_blocks, mempool, nullifier_set,
                    commitment_set, utxos, spent_utxos, now, base, adopted, merkle_tree,
                    block, search, key_images, signatures>>

Deposit ==
  \E amount \in DepositAmounts, commitment \in MixCommitments :
    AddToPool(amount, commitment, now)

Mix == \E amount \in MixAmounts : MixTransactions(amount)

\* the users of the mixing pool of a node
NextMix == Return \/ Deposit \/ Mix

SpecMix == InitDefault /\ [][NextMix]_vars

\* a miner who names one of the addresses for the reward
MineFor == \E address \in Addresses : MinePendingTransactions(address)

\* miners at a node with a backlog
NextBacklog == Tick \/ Return \/ MineFor

SpecBacklog == InitBacklog /\ [][NextBacklog]_vars

NextAudit == Tick \/ Return \/ Mine \/ AuditOwnChain \/ AuditPeerChain

SpecAudit == InitDefault /\ [][NextAudit]_vars

NextReorg == Tick \/ Return \/ AdmitOne \/ Mine \/ ReorganizeDeep

SpecReorg == InitDefault /\ [][NextReorg]_vars

\* a node that never takes a chain from a peer; it starts fresh, or when its
\* next block is the first to retarget
NextLocal == Tick \/ Return \/ Admit \/ Mine

SpecLocal == (Init \/ Booted) /\ [][NextLocal]_vars

\* a node that mines, and checks the blocks peers send it
NextAccept == Tick \/ Return \/ Mine \/ Validate

SpecAccept == Init /\ [][NextAccept]_vars

(***************************************************************************)
(* Properties                                                              *)
(***************************************************************************)
\* the step is a call of the named method
Called(name) == last.op = "none" /\ last'.op = name

\* the shielded transactions of the chain, by block and position
ChainShielded ==
  {bp \in UNION {{<<i, p>> : p \in 1..Len(chain[i].transactions)} : i \in 1..Len(chain)} :
     IsShielded(chain[bp[1]].transactions[bp[2]])}

\* the shielded entries of the mempool, by position
MempoolShielded ==
  {i \in 1..Len(mempool.transactions) : IsShielded(mempool.transactions[i].transaction)}

\* C1: in every reachable state, for all i > 0, chain[i].previous_hash is
\* chain[i-1].hash and chain[i].index is i (blocks are counted from 0)
C1_ChainLinkage ==
  \A i \in 2..Len(chain) :
    chain[i].previous_hash = chain[i - 1].hash /\ chain[i].index = i - 1

\* C2: a block mine_pending_transactions appends has a stored hash equal to its
\* recomputed hash, with at least as many leading '0' characters as the
\* difficulty it was produced under; a mined block failing this is not appended
C2_AppendedBlockHasProofOfWork ==
  [][Called("mine_pending_transactions") =>
       LET b == MinedBlock(chain, mempool, difficulty, last'.arg, now)
           sound == b.hash = Block_calculate_hash(b) /\ b.hash.lz >= difficulty'
       IN /\ chain' # chain => chain' = Append(chain, b) /\ sound
          /\ ~sound => chain' = chain]_vars

C2_Witness ==
  /\ last.op = "mine_pending_transactions" /\ last.ret
  /\ difficulty >= 2
  /\ chain[Len(chain)].hash.lz >= difficulty
  /\ Len(chain[Len(chain)].transactions) >= 2

\* the characters of the strings a transaction carries
C3_TransactionChars(tx) ==
  IF IsShielded(tx) THEN tx.commitment.len + tx.nullifier.len + tx.proof.len
  ELSE AddrStr(tx.sender).len + AddrStr(tx.recipient).len + tx.signature.len

\* the characters of transactions lo..hi, summed by halves
RECURSIVE C3_RangeChars(_, _, _)
C3_RangeChars(transactions, lo, hi) ==
  IF lo > hi THEN 0
  ELSE IF lo = hi THEN C3_TransactionChars(transactions[lo])
  ELSE LET mid == (lo + hi) \div 2
       IN C3_RangeChars(transactions, lo, mid) + C3_RangeChars(transactions, mid + 1, hi)

\* the characters of the strings a block carries: no encoding of it is smaller
C3_BlockChars(b) ==
  b.previous_hash.len + b.hash.len + b.merkle_root.len
    + C3_RangeChars(b.transactions, 1, Len(b.transactions))

\* C3: validate_new_block returns true exactly when the stored hash is the
\* recomputed one, previous_hash is the tip's hash, the hash has block.difficulty
\* leading zeros, the Merkle root is the recomputed one, the block is within the
\* size limit, it has at most 1000 transactions and its timestamp is after the
\* tip's and at most 2 hours ahead of the current time; the call changes no state
C3_AcceptConditions(b, tip, clock) ==
  /\ b.hash = Block_calculate_hash(b)
  /\ b.previous_hash = tip.hash
  /\ b.hash.lz >= b.difficulty
  /\ b.merkle_root = calculate_merkle_root(b)
  /\ C3_BlockChars(b) <= MAX_BLOCK_SIZE
  /\ Len(b.transactions) <= MAX_TRANSACTIONS_PER_BLOCK
  /\ b.timestamp > tip.timestamp
  /\ b.timestamp <= clock + MAX_FUTURE_SECONDS

C3_ValidateNewBlock ==
  [][Called("validate_new_block") =>
       /\ last'.ret <=> C3_AcceptConditions(last'.arg, chain[Len(chain)], now)
       /\ UNCHANGED <<chain, difficulty, orphaned_blocks, mempool, nullifier_set,
                      commitment_set, utxos, spent_utxos>>]_vars

\* C4: when the block mined in mine_pending_transactions fails
\* validate_new_block, the chain, the orphaned blocks, the mempool and the
\* difficulty are what they were before the call
C4_FailedMineChangesNothing ==
  [][(Called("mine_pending_transactions") /\ ~last'.ret) =>
       /\ chain' = chain
       /\ orphaned_blocks' = orphaned_blocks
       /\ mempool' = mempool
       /\ difficulty' = difficulty]_vars

\* C5: on a chain that grew from its own genesis by add_transaction and
\* mine_pending_transactions alone, is_chain_valid() returns true
C5_LocalChainIsValid == is_chain_valid(chain)

C5_Witness ==
  /\ Len(chain) = base.len + 2
  /\ \E i \in 2..Len(chain) : Len(chain[i].transactions) >= 3

\* C6: after mine_pending_transactions(addr) appends the first block of a fresh
\* chain, get_balance(addr) is the coinbase reward paid in that block
C6_MinerBalanceIsReward ==
  (last.op = "mine_pending_transactions" /\ last.ret /\ Len(chain) = 2) =>
    UTXOPool_get_balance(utxos, last.arg) = get_block_reward(1)

\* C7: a transparent transaction whose sender's live-UTXO balance is smaller than
\* its amount is rejected by add_transaction and never reaches the mempool or a block
C7_Underfunded(tx) ==
  /\ tx.type = "transparent"
  /\ tx.sender # "COINBASE"
  /\ UTXOPool_get_balance(utxos, tx.sender) < tx.amount

C7_UnderfundedTransferRejected ==
  /\ (last.op = "add_transaction" /\ C7_Underfunded(last.arg)) => ~last.ret
  /\ \A i \in 1..Len(mempool.transactions) :
       ~C7_Underfunded(mempool.transactions[i].transaction)
  /\ \A i \in 1..Len(chain) : \A p \in 1..Len(chain[i].transactions) :
       ~C7_Underfunded(chain[i].transactions[p])

\* C8: the nullifier and commitment sets never lose an element, an admitted
\* shielded transaction's nullifier is in the nullifier set, and an
\* add_transaction of a shielded transaction whose nullifier is in the set is
\* rejected, whatever happened in between
C8_SpentNullifierStaysSpent ==
  [][/\ nullifier_set \subseteq nullifier_set'
     /\ commitment_set \subseteq commitment_set'
     /\ (Called("add_transaction") /\ IsShielded(last'.arg)) =>
          /\ last'.arg.nullifier \in nullifier_set => ~last'.ret
          /\ last'.ret => last'.arg.nullifier \in nullifier_set']_vars

C8_Witness ==
  /\ last.op = "add_transaction" /\ ~last.ret
  /\ last.arg = TxShieldA2
  /\ TxShieldA2.commitment \notin commitment_set
  /\ adopted > 0
  /\ Len(chain) > 1
  /\ \A bp \in ChainShielded : chain[bp[1]].transactions[bp[2]] # TxShieldA1
  /\ \A i \in MempoolShielded : mempool.transactions[i].transaction # TxShieldA1
  /\ Len(mempool.transactions) = max_size

\* C9: a shielded admission rejected because the nullifier is already present, or
\* because the proof or the commitment is not 64 characters long, leaves the
\* nullifier set and the commitment set unchanged; so of two shielded
\* transactions with the same nullifier only one commitment is ever recorded
C9_RejectedAdmissionChangesNothing ==
  [][/\ (/\ Called("add_transaction") /\ IsShielded(last'.arg)
         /\ \/ last'.arg.nullifier \in nullifier_set
            \/ last'.arg.proof.len # HEX_LEN
            \/ last'.arg.commitment.len # HEX_LEN) =>
          /\ ~last'.ret
          /\ nullifier_set' = nullifier_set
          /\ commitment_set' = commitment_set
     /\ ~({TxShieldA1.commitment, TxShieldA2.commitment} \subseteq commitment_set')
     /\ get_anonymity_set_size(commitment_set') = Cardinality(nullifier_set')]_vars

C9_Witness ==
  /\ last.op = "add_transaction" /\ ~last.ret
  /\ last.arg = TxShieldA1
  /\ TxShieldA2.commitment \in commitment_set
  /\ get_anonymity_set_size(commitment_set) = 1

\* C10: in a chain built through add_transaction and mine_pending_transactions,
\* no two shielded transactions of the chain carry the same nullifier, and no
\* two mempool entries carry the same nullifier
C10_NullifiersUnique ==
  /\ \A x, y \in ChainShielded :
       x # y => chain[x[1]].transactions[x[2]].nullifier
                  # chain[y[1]].transactions[y[2]].nullifier
  /\ \A i, j \in MempoolShielded :
       i # j => mempool.transactions[i].transaction.nullifier
                  # mempool.transactions[j].transaction.nullifier

C10_Witness ==
  /\ \E x, y \in ChainShielded : x[1] # y[1]
  /\ MempoolShielded = {}

\* C11: handle_chain_reorganization returns false and leaves the chain, the
\* orphaned blocks, the mempool, the UTXO pool and the privacy ledger as they
\* were when the competing chain is not longer than the chain, fails
\* is_chain_valid or is more than max_reorg_depth longer; afterwards the node
\* still admits a transaction and mines a block once the clock has passed its tip
C11_Refusal(competing) ==
  \/ competing.len <= Len(chain)
  \/ ~competing.valid
  \/ competing.len - Len(chain) > max_reorg_depth

C11_RefusedReorgChangesNothing ==
  [][(Called("handle_chain_reorganization") /\ C11_Refusal(last'.arg)) =>
       /\ ~last'.ret
       /\ UNCHANGED <<chain, difficulty, orphaned_blocks, mempool, nullifier_set,
                      commitment_set, utxos, spent_utxos>>
       /\ Mempool_add_transaction(mempool', TxTransfer, DEFAULT_FEE, now').ret
       /\ mine_pending_transactions(chain', mempool', difficulty', "miner",
            Max(now', get_latest_block(chain').timestamp) + 1).ret]_vars

C11_Witness ==
  /\ last.op = "handle_chain_reorganization" /\ ~last.ret
  /\ last.arg.valid
  /\ last.arg.len - Len(chain) > max_reorg_depth
  /\ Len(chain) > 1
  /\ Len(mempool.transactions) > 0

\* C12: a competing chain every block of which is valid is refused when it is
\* more than max_reorg_depth blocks longer than the chain, and adopted when it
\* is 1 to max_reorg_depth blocks longer
C12_DepthBound ==
  [][(Called("handle_chain_reorganization") /\ last'.arg.valid) =>
       /\ last'.arg.len - Len(chain) > max_reorg_depth => ~last'.ret /\ chain' = chain
       /\ last'.arg.len - Len(chain) \in 1..max_reorg_depth =>
            last'.ret /\ Len(chain') = last'.arg.len]_vars

C12_Witness ==
  /\ last.op = "handle_chain_reorganization" /\ last.ret
  /\ Len(chain) = base.len + max_reorg_depth

\* C13: after handle_chain_reorganization returns true, every block of the
\* previous chain that is not in the adopted chain is in orphaned_blocks, and
\* no step removes a block from orphaned_blocks
C13_DisplacedBlocksOrphaned ==
  [][/\ (Called("handle_chain_reorganization") /\ last'.ret) =>
          \A i \in 1..Len(chain) :
            (\A j \in 1..Len(chain') : chain'[j] # chain[i]) =>
              \E o \in 1..Len(orphaned_blocks') : orphaned_blocks'[o] = chain[i]
     /\ \A o \in 1..Len(orphaned_blocks) :
          \E q \in 1..Len(orphaned_blocks') : orphaned_blocks'[q] = orphaned_blocks[o]]_vars

\* C14: handle_chain_reorganization adopts a chain only if each block after the
\* first passes the checks of validate_new_block with its predecessor as tip:
\* among them a timestamp after the predecessor's and at most 2 hours ahead of
\* the clock, and at most 1000 transactions
C14_AdoptedChainPassesAccept ==
  [][(Called("handle_chain_reorganization") /\ last'.ret) =>
       \A i \in 2..Len(chain') :
         /\ validate_new_block(SubSeq(chain', 1, i - 1), chain'[i], now)
         /\ chain'[i].timestamp > chain'[i - 1].timestamp
         /\ chain'[i].timestamp <= now + MAX_FUTURE_SECONDS
         /\ Len(chain'[i].transactions) <= MAX_TRANSACTIONS_PER_BLOCK]_vars

\* the four checks of block i of ch against block i - 1
C15_HashRecomputes(ch, i) == ch[i].hash = Block_calculate_hash(ch[i])
C15_Linked(ch, i) == ch[i].previous_hash = ch[i - 1].hash
C15_MerkleVerifies(ch, i) == verify_merkle_root(ch[i])
C15_ProofOfWork(ch, i) == ch[i].hash.lz >= ch[i].difficulty

\* C15: is_chain_valid returns true if and only if every block after the first
\* has the hash that is recomputed from it, names its predecessor's hash, has a
\* Merkle root that verifies and a hash with difficulty leading zeros; the call
\* changes nothing
C15_IsChainValid ==
  [][Called("is_chain_valid") =>
       /\ last'.ret = (\A i \in 2..Len(last'.arg) :
                         /\ C15_HashRecomputes(last'.arg, i)
                         /\ C15_Linked(last'.arg, i)
                         /\ C15_MerkleVerifies(last'.arg, i)
                         /\ C15_ProofOfWork(last'.arg, i))
       /\ UNCHANGED <<chain, difficulty, orphaned_blocks, mempool, nullifier_set,
                      commitment_set, utxos, spent_utxos>>]_vars

\* a chain refused for nothing but the Merkle root of a block in its middle
C15_Witness ==
  /\ last.op = "is_chain_valid"
  /\ ~last.ret
  /\ \E i \in 2..(Len(last.arg) - 1) :
       /\ ~C15_MerkleVerifies(last.arg, i)
       /\ C15_HashRecomputes(last.arg, i) /\ C15_Linked(last.arg, i) /\ C15_ProofOfWork(last.arg, i)
       /\ \A j \in (2..Len(last.arg)) \ {i} :
            /\ C15_HashRecomputes(last.arg, j) /\ C15_Linked(last.arg, j)
            /\ C15_MerkleVerifies(last.arg, j) /\ C15_ProofOfWork(last.arg, j)

C17_NoResurrection ==
  /\ (DOMAIN utxos) \cap spent_utxos = {}
  /\ [][/\ (DOMAIN utxos') \cap spent_utxos' = {}
        /\ spent_utxos \subseteq spent_utxos'
        /\ (Called("add_utxo") /\ is_utxo_spent(spent_utxos, UTXO_get_id(last'.arg))) =>
             /\ UNCHANGED <<utxos, spent_utxos>>
             /\ get_total_utxos(utxos') = get_total_utxos(utxos)
             /\ \A address \in Addresses :
                  UTXOPool_get_balance(utxos', address) = UTXOPool_get_balance(utxos, address)]_vars

\* an output is added whose id was spent before, under another owner
C17_Witness ==
  /\ last.op = "add_utxo"
  /\ UTXO_get_id(last.arg) \in spent_utxos
  /\ last.arg.address = "bob"
  /\ last.arg.output_index = 0
  /\ UTXOPool_get_balance(utxos, "alice") > 0

\* C18: when Mempool.add_transaction returns false, the mempool is as it was
\* before the call: entries, admission timestamps, fees and size
C18_RefusedDuplicateChangesNothing ==
  [][(Called("Mempool.add_transaction") /\ ~last'.ret) => mempool' = mempool]_vars

\* position p holds an entry that no entry of entries undercuts in priority
C19_IsMinimal(entries, p, current_time) ==
  \A q \in 1..Len(entries) :
    EntryPriority(entries[p], current_time) <= EntryPriority(entries[q], current_time)

\* entries without the entry at position p
C19_Without(entries, p) == SubSeq(entries, 1, p - 1) \o SubSeq(entries, p + 1, Len(entries))

\* C19: the mempool never holds more than max_size entries nor two entries of
\* one hash; admitting a transaction it does not hold when it holds max_size
\* entries removes exactly one entry, of minimal priority, and appends the new
\* one, so that the size stays max_size
C19_CapacityEviction ==
  [][/\ Len(mempool'.transactions) <= max_size
     /\ \A i, j \in 1..Len(mempool'.transactions) :
          mempool'.transactions[i].hash = mempool'.transactions[j].hash => i = j
     /\ (/\ Called("Mempool.add_transaction")
         /\ Len(mempool.transactions) = max_size
         /\ \A i \in 1..max_size :
              mempool.transactions[i].hash # tx_calculate_hash(last'.arg.transaction)) =>
          /\ last'.ret
          /\ Len(mempool'.transactions) = max_size
          /\ \E p \in 1..max_size :
               /\ C19_IsMinimal(mempool.transactions, p, now)
               /\ mempool'.transactions =
                    Append(C19_Without(mempool.transactions, p),
                           [transaction |-> last'.arg.transaction,
                            hash |-> tx_calculate_hash(last'.arg.transaction),
                            timestamp |-> now, fee |-> last'.arg.fee])]_vars

\* a transaction was admitted to a full mempool whose oldest entry was not the
\* one of least priority, and stayed
C19_Witness ==
  /\ last.op = "Mempool.add_transaction"
  /\ last.ret
  /\ Len(mempool.transactions) = max_size
  /\ mempool.transactions[max_size].hash = tx_calculate_hash(last.arg.transaction)
  /\ mempool.transactions[1].timestamp < now
  /\ \E transaction \in Transfers :
       /\ TransferFee(transaction) < mempool.transactions[1].fee
       /\ \A i \in 1..max_size :
            mempool.transactions[i].hash # tx_calculate_hash(transaction)

\* entry q comes before entry p in the order of the result: higher priority, or
\* the same priority and admitted earlier
C20_Ahead(entries, q, p, current_time) ==
  \/ EntryPriority(entries[q], current_time) > EntryPriority(entries[p], current_time)
  \/ /\ EntryPriority(entries[q], current_time) = EntryPriority(entries[p], current_time)
     /\ q < p

C20_Rank(entries, p, current_time) ==
  Cardinality({q \in 1..Len(entries) : C20_Ahead(entries, q, p, current_time)}) + 1

\* C20: get_transactions_for_mining(k) returns min(k, size) transactions, the
\* i-th being the one that exactly i - 1 entries precede by priority fee * age
\* or, at equal priority, by admission order; the mempool is left as it was
C20_MiningSelection ==
  [][Called("get_transactions_for_mining") =>
       /\ Len(last'.ret) = Min(last'.arg, Len(mempool.transactions))
       /\ \A i \in 1..Len(last'.ret) :
            \E p \in 1..Len(mempool.transactions) :
              /\ mempool.transactions[p].transaction = last'.ret[i]
              /\ C20_Rank(mempool.transactions, p, now) = i
       /\ mempool' = mempool]_vars

\* one of two entries of the same priority above zero was asked for
C20_Witness ==
  /\ last.op = "get_transactions_for_mining"
  /\ Len(last.ret) = 1
  /\ Len(mempool.transactions) = 2
  /\ EntryPriority(mempool.transactions[1], now) = EntryPriority(mempool.transactions[2], now)
  /\ EntryPriority(mempool.transactions[1], now) > 0
  /\ mempool.transactions[1].fee # mempool.transactions[2].fee

\* the mempool holds two entries, and the miner asked for one transaction
C21_OneOfTwo ==
  /\ Called("get_transactions_for_mining")
  /\ last'.arg = 1
  /\ Len(mempool.transactions) = 2

\* C21: of two entries admitted at the same time with fees 0.001 and 0.01,
\* get_transactions_for_mining(1) returns the one with fee 0.01 whenever it is
\* called and whichever was admitted first; of two entries with the same fee
\* admitted at different times it returns the one admitted earlier
C21_HigherFeeThenOlder ==
  [][C21_OneOfTwo =>
       \A p \in 1..2 :
         LET mine == mempool.transactions[p]
             other == mempool.transactions[3 - p]
         IN /\ (/\ mine.timestamp = other.timestamp
                /\ mine.fee = 10 * DEFAULT_FEE
                /\ other.fee = DEFAULT_FEE) => last'.ret = <<mine.transaction>>
            /\ (/\ mine.timestamp < other.timestamp
                /\ mine.fee = other.fee
                /\ mine.fee > 0) => last'.ret = <<mine.transaction>>]_vars

\* the positions of the entries of mp with hash tx_hash
C22_Positions(mp, tx_hash) == {p \in 1..Len(mp.transactions) : mp.transactions[p].hash = tx_hash}

\* C22: remove_transaction of a hash the mempool does not hold changes nothing;
\* of a hash it holds, it deletes the entry with that hash and its fee and
\* leaves the other entries, their order and their fees as they were; removing
\* the hash once more changes nothing
C22_RemoveIdempotent ==
  [][Called("remove_transaction") =>
       LET tx_hash == last'.arg.tx_hash
           held == C22_Positions(mempool, tx_hash)
       IN /\ (held = {} /\ tx_hash \notin DOMAIN mempool.transaction_fees) => mempool' = mempool
          /\ \A p \in held :
               mempool'.transactions = C19_Without(mempool.transactions, p)
          /\ DOMAIN mempool'.transaction_fees = (DOMAIN mempool.transaction_fees) \ {tx_hash}
          /\ \A h \in DOMAIN mempool'.transaction_fees :
               mempool'.transaction_fees[h] = mempool.transaction_fees[h]
          /\ remove_transaction(mempool', tx_hash) = mempool']_vars

\* one of two entries was removed
C22_Witness ==
  /\ last.op = "remove_transaction"
  /\ last.arg.held
  /\ Len(mempool.transactions) = 1
  /\ DOMAIN mempool.transaction_fees = {mempool.transactions[1].hash}
  /\ last.arg.tx_hash # mempool.transactions[1].hash

\* the hashes of the transactions of block b
C23_Included(b) == {tx_calculate_hash(b.transactions[i]) : i \in 1..Len(b.transactions)}

\* C23: when mine_pending_transactions appends its block, the chain grows by
\* that one block, whose index is the previous length of the chain and whose
\* previous_hash is the hash of the previous tip; no transaction of the block
\* stays in the mempool, and the entries of the other transactions, their
\* order and their fees are as they were
C23_MinedBlockLeavesMempool ==
  [][(Called("mine_pending_transactions") /\ last'.ret) =>
       LET new_block == chain'[Len(chain')]
           Waiting(e) == e.hash \notin C23_Included(new_block)
       IN /\ Len(chain') = Len(chain) + 1
          /\ SubSeq(chain', 1, Len(chain)) = chain
          /\ new_block.index = Len(chain)
          /\ new_block.previous_hash = chain[Len(chain)].hash
          /\ mempool'.transactions = SelectSeq(mempool.transactions, Waiting)
          /\ DOMAIN mempool'.transaction_fees =
               (DOMAIN mempool.transaction_fees) \ C23_Included(new_block)
          /\ \A h \in DOMAIN mempool'.transaction_fees :
               mempool'.transaction_fees[h] = mempool.transaction_fees[h]]_vars

\* a block was mined that took MINING_BATCH transfers, the one with the high
\* fee among them, and left two that were admitted before it
C23_Witness ==
  /\ last.op = "mine_pending_transactions"
  /\ last.ret
  /\ Len(chain) = 2
  /\ Len(chain[2].transactions) = MINING_BATCH + 1
  /\ chain[2].transactions[1] = BacklogTransaction(MINING_BATCH + 2)
  /\ Len(mempool.transactions) = 2
  /\ mempool.transactions[1].transaction = BacklogTransaction(MINING_BATCH)

\* a caller verifies the proof get_proof gave for a leaf of the tree, as it
\* was given, against the root get_root_hash gave
C24_RoundTrip ==
  /\ Called("verify_proof")
  /\ Holds(merkle_tree, last'.arg.transaction)
  /\ last'.arg.proof = get_proof(merkle_tree, last'.arg.transaction)
  /\ last'.arg.root_hash = get_root_hash(merkle_tree)

\* C24: for every non-empty list of leaves and every leaf in it,
\* verify_proof(leaf_hash, get_proof(leaf), get_root_hash()) returns true,
\* where leaf_hash is the leaf hash that was given to the tree
C24_ProofRoundTrip ==
  [][(C24_RoundTrip /\ last'.arg.transaction_hash = last'.arg.transaction) =>
       last'.ret]_vars

\* current_hash of verify_proof when its loop reaches proof[k]
C25_Reached(transaction_hash, proof, k) ==
  FoldProof(transaction_hash, SubSeq(proof, 1, k - 1), 1)

\* C25: verify_proof returns false for a proof that verifies, after one of
\* its sibling hashes is replaced by another value, after one of its sides is
\* flipped where the two operands differ, and against a root other than the
\* tree's; for a leaf that is not in the tree get_proof returns the empty
\* proof, and it does not verify against the root of a tree of two or more
\* leaves
C25_TamperedProofFails ==
  [][Called("verify_proof") =>
       LET a == last'.arg
           given == get_proof(merkle_tree, a.transaction)
           root == get_root_hash(merkle_tree)
           verifies == /\ Holds(merkle_tree, a.transaction)
                       /\ MerkleTree_verify_proof(a.transaction_hash, given, root)
       IN /\ (/\ verifies
              /\ a.tamper.kind = "sibling"
              /\ a.proof[a.tamper.at].hash # given[a.tamper.at].hash) => ~last'.ret
          /\ (/\ verifies
              /\ a.tamper.kind = "side"
              /\ C25_Reached(a.transaction_hash, given, a.tamper.at)
                   # given[a.tamper.at].hash) => ~last'.ret
          /\ (verifies /\ a.tamper.kind = "root" /\ a.root_hash # root) => ~last'.ret
          /\ (/\ ~Holds(merkle_tree, a.transaction)
              /\ Len(merkle_tree) >= 2
              /\ a.tamper.kind = "none") => (a.proof = << >> /\ ~last'.ret)]_vars

\* no element comes twice in the list
C26_Distinct(transactions) ==
  \A i, j \in 1..Len(transactions) : transactions[i] = transactions[j] => i = j

\* C26: a tree built over the same sequence of leaves has the same root, and
\* a tree built over n > 1 pairwise distinct leaves in another order has
\* another root
C26_BuildOrderSensitive ==
  [][Called("MerkleTree") =>
       /\ last'.ret = get_root_hash(merkle_tree')
       /\ merkle_tree' = merkle_tree => last'.ret = get_root_hash(merkle_tree)
       /\ (/\ Len(merkle_tree) > 1
           /\ C26_Distinct(merkle_tree)
           /\ Len(merkle_tree') = Len(merkle_tree)
           /\ Elements(merkle_tree') = Elements(merkle_tree)
           /\ merkle_tree' # merkle_tree) => last'.ret # get_root_hash(merkle_tree)]_vars

\* a tree of three leaves was built again with its last two leaves swapped:
\* the last leaf is the one that is paired with itself
C26_Witness ==
  /\ last.op = "MerkleTree"
  /\ Len(merkle_tree) = 3
  /\ C26_Distinct(merkle_tree)
  /\ last.arg.replaced[1] = merkle_tree[1]
  /\ last.arg.replaced[2] = merkle_tree[3]
  /\ last.arg.replaced[3] = merkle_tree[2]
  /\ last.ret = get_root_hash(merkle_tree)

\* C27: the root hash of the tree over no leaves is the digest of "empty",
\* the value Block.calculate_merkle_root gives for a block without
\* transactions, the genesis block for one
C27_EmptyRootIsSentinel ==
  [][(Called("get_root_hash") /\ merkle_tree = << >>) =>
       /\ chain[1].transactions = << >>
       /\ last'.ret = calculate_merkle_root(chain[1])]_vars

\* C28: when mine_block(d) returns on a block that had nonce 0 and no hash,
\* the block's difficulty is d, its stored Merkle root verifies, its stored
\* hash is calculate_hash() of its fields and has d leading '0' characters;
\* a pass of the search raises the nonce and changes no field but the nonce
\* and the hash
C28_MinedBlockIsSealed ==
  [][/\ Called("mine_block") =>
          /\ block'[1].difficulty = last'.arg
          /\ verify_merkle_root(block'[1])
          /\ block'[1].hash = Block_calculate_hash(block'[1])
          /\ PrefixIsZeros(block'[1].hash, last'.arg)
     /\ (search # None /\ block' # block) =>
          /\ block'[1].nonce > block[1].nonce
          /\ [block'[1] EXCEPT !.nonce = block[1].nonce, !.hash = block[1].hash]
               = block[1]]_vars

\* C29: a verify_ring_signature that returns true finds the key image unspent
\* and marks it spent, and key images stay spent; so a later verify of a
\* signature with that key image returns false, and create_ring_signature
\* with the secret of a spent key image returns None; a verify that returns
\* false leaves the set of spent key images as it was
C29_KeyImageVerifiesOnce ==
  [][/\ key_images \subseteq key_images'
     /\ Called("verify_ring_signature") =>
          LET signature == last'.arg.signature
          IN /\ last'.ret =>
                  /\ signature # None
                  /\ signature[1].key_image \notin key_images
                  /\ key_images' = key_images \cup {signature[1].key_image}
             /\ (signature # None /\ signature[1].key_image \in key_images) => ~last'.ret
             /\ ~last'.ret => key_images' = key_images
     /\ (/\ Called("create_ring_signature")
         /\ KeyImageOf(last'.arg.private_key) \in key_images) => last'.ret = None]_vars

\* a signature as it was made is refused because its key image is spent
C29_Witness ==
  /\ last.op = "verify_ring_signature"
  /\ ~last.ret
  /\ last.arg.signature # None
  /\ last.arg.signature[1] \in signatures
  /\ last.arg.signature[1].key_image \in key_images

\* C30: create_ring_signature leaves the set of spent key images as it was;
\* for a secret whose key image is unspent it returns a signature with that
\* key image whose c and r have as many entries as the ring; of the
\* signatures so made, verify_ring_signature accepts one exactly if its key
\* image is still unspent, that is the first of a secret that is verified
C30_SigningSpendsNothing ==
  [][/\ Called("create_ring_signature") =>
          /\ key_images' = key_images
          /\ KeyImageOf(last'.arg.private_key) \notin key_images =>
               /\ last'.ret # None
               /\ last'.ret[1].key_image = KeyImageOf(last'.arg.private_key)
               /\ last'.ret[1].ring = last'.arg.public_keys
               /\ Len(last'.ret[1].c) = Len(last'.arg.public_keys)
               /\ Len(last'.ret[1].r) = Len(last'.arg.public_keys)
               /\ last'.ret[1].key_image \notin key_images'
     /\ (/\ Called("verify_ring_signature")
         /\ last'.arg.signature # None
         /\ last'.arg.signature[1] \in signatures) =>
          (last'.ret <=> last'.arg.signature[1].key_image \notin key_images)]_vars

\* two signatures of one secret were made, and the first of them to be
\* verified is accepted
C30_Witness ==
  /\ last.op = "verify_ring_signature"
  /\ last.ret
  /\ key_images = {last.arg.signature[1].key_image}
  /\ Cardinality(signatures) = 2
  /\ \A s \in signatures : s.key_image = last.arg.signature[1].key_image

\* the places of the entries of the pool that are unmixed and whose amount
\* is within 0.01 of amount
C31_Eligible(amount) ==
  {i \in 1..Len(mixing_pool) :
     /\ ~mixing_pool[i].mixed
     /\ mixing_pool[i].amount - amount < MIX_TOLERANCE
     /\ amount - mixing_pool[i].amount < MIX_TOLERANCE}

\* the first min_pool_size of them
C31_Batch(amount) ==
  {i \in C31_Eligible(amount) :
     Cardinality({j \in C31_Eligible(amount) : j < i}) < min_pool_size}

\* C31: mix_transactions(a) returns the empty list and changes nothing when
\* fewer than min_pool_size unmixed entries have an amount within 0.01 of a;
\* otherwise it returns the commitments of the first min_pool_size of them,
\* in the order of the pool, and these entries and no others become mixed
C31_MixesFullBatches ==
  [][Called("mix_transactions") =>
       LET amount == last'.arg
           batch == C31_Batch(amount)
       IN IF Cardinality(C31_Eligible(amount)) < min_pool_size
          THEN /\ last'.ret = << >>
               /\ mixing_pool' = mixing_pool
               /\ mixed_outputs' = mixed_outputs
          ELSE /\ Len(last'.ret) = min_pool_size
               /\ \A i \in batch :
                    last'.ret[1 + Cardinality({j \in batch : j < i})]
                      = mixing_pool[i].commitment
               /\ Len(mixing_pool') = Len(mixing_pool)
               /\ \A i \in 1..Len(mixing_pool) :
                    mixing_pool'[i] = IF i \in batch
                                      THEN [mixing_pool[i] EXCEPT !.mixed = TRUE]
                                      ELSE mixing_pool[i]]_vars

\* a batch was mixed while one more entry of that amount waits: the pool
\* holds min_pool_size mixed entries and, after them, an unmixed one of the
\* amount asked for
C31_Witness ==
  /\ last.op = "mix_transactions"
  /\ Len(last.ret) = min_pool_size
  /\ Cardinality({i \in 1..Len(mixing_pool) : mixing_pool[i].mixed}) = min_pool_size
  /\ \E i \in 1..Len(mixing_pool) :
       /\ ~mixing_pool[i].mixed
       /\ mixing_pool[i].amount = last.arg
       /\ \A j \in 1..Len(mixing_pool) : mixing_pool[j].mixed => j < i

\* the entries a step turns from unmixed to mixed
C39_Turned ==
  {i \in 1..Len(mixing_pool) : ~mixing_pool[i].mixed /\ mixing_pool'[i].mixed}

\* C39: the pool only grows at its end and a mixed entry stays mixed; the
\* entries a mix_transactions returns are unmixed before the call and mixed
\* after it, so no entry is returned twice; the commitments of a batch are
\* min_pool_size pairwise distinct commitments
C39_EntriesMixOnce ==
  [][/\ Len(mixing_pool') >= Len(mixing_pool)
     /\ \A i \in 1..Len(mixing_pool) :
          /\ [mixing_pool'[i] EXCEPT !.mixed = mixing_pool[i].mixed] = mixing_pool[i]
          /\ mixing_pool[i].mixed => mixing_pool'[i].mixed
     /\ Called("mix_transactions") =>
          /\ Len(last'.ret) = Cardinality(C39_Turned)
          /\ \A i \in C39_Turned :
               last'.ret[1 + Cardinality({j \in C39_Turned : j < i})]
                 = mixing_pool[i].commitment
          /\ last'.ret # << >> =>
               /\ Len(last'.ret) = min_pool_size
               /\ \A k, l \in 1..Len(last'.ret) :
                    last'.ret[k] = last'.ret[l] => k = l]_vars

(***************************************************************************)
(* Difficulty adjustment on chains of any length                           *)
(***************************************************************************)
\* TARGET_BLOCK_TIME * DIFFICULTY_ADJUSTMENT_INTERVAL
EXPECTED_TIME == TARGET_BLOCK_TIME * DIFFICULTY_ADJUSTMENT_INTERVAL

\* the seconds between the first block of the window and the tip: on both
\* sides of half and of twice the expected time, and a tip older than the
\* first block of the window
Elapsed ==
  {0 - 1, 0, EXPECTED_TIME \div 2 - 1, EXPECTED_TIME \div 2, EXPECTED_TIME \div 2 + 1,
   EXPECTED_TIME, EXPECTED_TIME * 2 - 1, EXPECTED_TIME * 2, EXPECTED_TIME * 2 + 1}

\* the seconds between two blocks below the tip
Spacings == {0, 1, TARGET_BLOCK_TIME}

\* chains short of the window, of exactly one window and longer
ChainLengths ==
  {1, DIFFICULTY_ADJUSTMENT_INTERVAL - 1, DIFFICULTY_ADJUSTMENT_INTERVAL,
   DIFFICULTY_ADJUSTMENT_INTERVAL + 1}

\* a list of n blocks, spacing seconds apart, whose tip has difficulty d and
\* comes elapsed seconds after the block DIFFICULTY_ADJUSTMENT_INTERVAL - 1
\* places below it (after the first block in a shorter chain)
TimedChain(n, spacing, elapsed, d) ==
  LET start == Max(1, n - DIFFICULTY_ADJUSTMENT_INTERVAL + 1)
  IN List([i \in 1..n |->
             Block(i - 1,
                   IF i = n /\ n > 1 THEN (start - 1) * spacing + elapsed
                   ELSE (i - 1) * spacing,
                   << >>, EmptyStr,
                   IF i = n THEN d ELSE DEFAULT_DIFFICULTY, 1)])

\* a node whose chain is ch, with nothing else
WithChain(ch) ==
  /\ chain = ch
  /\ difficulty = DEFAULT_DIFFICULTY
  /\ orphaned_blocks = << >>
  /\ mempool = EmptyMempool
  /\ nullifier_set = {}
  /\ commitment_set = {}
  /\ utxos = << >>
  /\ spent_utxos = {}
  /\ now = 0
  /\ base = [len |-> Len(ch), time |-> 0]
  /\ adopted = 0
  /\ last = NoCall
  /\ NoObjects

InitDifficulty ==
  \E n \in ChainLengths, spacing \in Spacings, elapsed \in Elapsed,
     d \in 0..MaxDifficulty :
    WithChain(TimedChain(n, spacing, elapsed, d))

\* ConsensusRules.calculate_difficulty(chain)
CalculateDifficulty ==
  /\ Idle
  /\ last' = [op |-> "calculate_difficulty", arg |-> Len(chain),
              ret |-> calculate_difficulty(chain)]
  /\ UNCHANGED <<chain, difficulty, orphaned_blocks, mempool, nullifier_set,
                 commitment_set, utxos, spent_utxos, now, base, adopted, aside>>

NextDifficulty == Return \/ CalculateDifficulty

SpecDifficulty == InitDifficulty /\ [][NextDifficulty]_vars

\* the difficulty of the last block of the chain
C32_Tip == chain[Len(chain)].difficulty

\* the timestamp of the last block minus that of the 20th block from the end
C32_Elapsed ==
  chain[Len(chain)].timestamp
    - chain[Len(chain) - (DIFFICULTY_ADJUSTMENT_INTERVAL - 1)].timestamp

\* what C32 says calculate_difficulty returns
C32_Returns(ret) ==
  IF Len(chain) < DIFFICULTY_ADJUSTMENT_INTERVAL THEN ret = 2
  ELSE IF C32_Elapsed < EXPECTED_TIME \div 2 THEN ret = C32_Tip + 1
  ELSE IF C32_Elapsed > EXPECTED_TIME * 2
       THEN ret = (IF C32_Tip - 1 > 1 THEN C32_Tip - 1 ELSE 1)
  ELSE ret = C32_Tip

\* the result is within 1 of the tip's difficulty, and below it only when
\* it is at least 1
C32_WithinOne(ret) ==
  /\ ret - C32_Tip <= 1
  /\ C32_Tip - ret <= 1
  /\ ret < C32_Tip => ret >= 1

\* C32 as stated: calculate_difficulty returns 2 on a chain of fewer than 20
\* blocks, else tip + 1, max(1, tip - 1) or tip by the elapsed time of the
\* last 20 blocks, and on every chain the result is within 1 of the tip's
\* difficulty
C32_WithinOneOfTipAlways ==
  [][Called("calculate_difficulty") =>
       C32_Returns(last'.ret) /\ C32_WithinOne(last'.ret)]_vars

\* C32, amended: the same values, and the result is within 1 of the tip's
\* difficulty on a chain of at least 20 blocks
C32_Retargets ==
  [][Called("calculate_difficulty") =>
       /\ C32_Returns(last'.ret)
       /\ Len(chain) >= DIFFICULTY_ADJUSTMENT_INTERVAL => C32_WithinOne(last'.ret)]_vars

\* a slow chain of more than 20 blocks whose tip has difficulty 1 keeps
\* difficulty 1
C32_Witness ==
  /\ last.op = "calculate_difficulty"
  /\ Len(chain) > DIFFICULTY_ADJUSTMENT_INTERVAL
  /\ C32_Elapsed > EXPECTED_TIME * 2
  /\ C32_Tip = 1
  /\ last.ret = 1

(***************************************************************************)
(* The public record of a shielded transaction                             *)
(***************************************************************************)
\* shielded transactions over two commitments and two timestamps, each
\* private field either None or set
ShieldedNotes ==
  {ShieldedTransaction_WithPrivate(commitment, NullifierA, HexStr(5, HEX_LEN), timestamp,
                                   _sender, _recipient, _amount, _blinding_factor) :
     commitment \in MixCommitments, timestamp \in 0..1,
     _sender \in {None, Some("alice"), Some("carol")},
     _recipient \in {None, Some("bob")},
     _amount \in {None, Some(1000), Some(2000)},
     _blinding_factor \in {None, Some(HexStr(7, HEX_LEN))}}

\* a miner holds a block with one shielded transaction and the reward
InitRecord ==
  \E tx \in ShieldedNotes :
    WithBlock(Block(1, 1, <<tx, TransparentTransaction("COINBASE", "bob", get_block_reward(1), 1)>>,
                    GenesisBlock(DEFAULT_DIFFICULTY, 0).hash, DEFAULT_DIFFICULTY, 1))

\* tx.to_dict() for the i-th transaction of the block
TxToDict(i) ==
  /\ Idle
  /\ last' = [op |-> "to_dict", arg |-> block[1].transactions[i],
              ret |-> tx_to_dict(block[1].transactions[i])]
  /\ UNCHANGED <<chain, difficulty, orphaned_blocks, mempool, nullifier_set,
                 commitment_set, utxos, spent_utxos, now, base, adopted, aside>>

\* tx.calculate_hash() for the i-th transaction of the block
TxCalculateHash(i) ==
  /\ Idle
  /\ last' = [op |-> "calculate_hash", arg |-> block[1].transactions[i],
              ret |-> tx_calculate_hash(block[1].transactions[i])]
  /\ UNCHANGED <<chain, difficulty, orphaned_blocks, mempool, nullifier_set,
                 commitment_set, utxos, spent_utxos, now, base, adopted, aside>>

\* block.to_dict()
BlockToDict ==
  /\ Idle
  /\ last' = [op |-> "Block.to_dict", arg |-> block[1], ret |-> Block_to_dict(block[1])]
  /\ UNCHANGED <<chain, difficulty, orphaned_blocks, mempool, nullifier_set,
                 commitment_set, utxos, spent_utxos, now, base, adopted, aside>>

Serialize == \E i \in 1..Len(block[1].transactions) : TxToDict(i)

Identify == \E i \in 1..Len(block[1].transactions) : TxCalculateHash(i)

NextRecord == Return \/ Serialize \/ Identify \/ BlockToDict

SpecRecord == InitRecord /\ [][NextRecord]_vars

\* the keys of the public record of a shielded transaction
C33_PublicKeys == {"type", "commitment", "nullifier", "proof", "timestamp"}

\* the shielded transactions that agree with tx on the public fields
C33_Alike(tx) ==
  {other \in ShieldedNotes :
     /\ other.commitment = tx.commitment
     /\ other.nullifier = tx.nullifier
     /\ other.proof = tx.proof
     /\ other.timestamp = tx.timestamp}

\* C33: shielded transactions that agree on (commitment, nullifier, proof,
\* timestamp) have the same to_dict() record and the same calculate_hash(),
\* whatever their private fields are; the record, also inside
\* Block.to_dict(), has the five public keys and no other
C33_RecordIsPublic ==
  [][/\ (Called("to_dict") /\ IsShielded(last'.arg)) =>
          /\ DOMAIN last'.ret = C33_PublicKeys
          /\ \A other \in C33_Alike(last'.arg) : tx_to_dict(other) = last'.ret
     /\ (Called("calculate_hash") /\ IsShielded(last'.arg)) =>
          \A other \in C33_Alike(last'.arg) : tx_calculate_hash(other) = last'.ret
     /\ Called("Block.to_dict") =>
          /\ DOMAIN last'.ret.transactions[1] = C33_PublicKeys
          /\ \A other \in C33_Alike(last'.arg.transactions[1]) :
               Block_to_dict([last'.arg EXCEPT !.transactions[1] = other]) = last'.ret]_vars

\* the record of a transaction with every private field set was taken, and
\* a transaction with the same public fields has another sender, amount and
\* blinding factor
C33_Witness ==
  /\ last.op = "to_dict"
  /\ IsShielded(last.arg)
  /\ last.arg._sender # None /\ last.arg._recipient # None
  /\ last.arg._amount # None /\ last.arg._blinding_factor # None
  /\ \E other \in C33_Alike(last.arg) :
       /\ other._sender # last.arg._sender
       /\ other._amount # last.arg._amount
       /\ other._blinding_factor # last.arg._blinding_factor

(***************************************************************************)
(* Reorganization of a node with a long chain                              *)
(***************************************************************************)
NextFork == Tick \/ Return \/ Mine \/ ReorganizeDeep

\* a node that mined BootBlocks blocks is handed the chains of its peers
SpecFork == Booted /\ [][NextFork]_vars

\* the places of the blocks of the chain that the chain after the step
\* does not hold
C34_Displaced ==
  {i \in 1..Len(chain) : \A j \in 1..Len(chain') : chain'[j] # chain[i]}

\* C34: a handle_chain_reorganization that returns true leaves at most
\* max_reorg_depth blocks of the previous chain out of the adopted chain
C34_DisplacesAtMostDepth ==
  [][(Called("handle_chain_reorganization") /\ last'.ret) =>
       Cardinality(C34_Displaced) <= max_reorg_depth]_vars

(***************************************************************************)
(* Rewards and the supply statistic                                        *)
(***************************************************************************)
\* the transactions of all blocks of ch, in order
RECURSIVE ChainTransactions(_)
ChainTransactions(ch) ==
  IF ch = << >> THEN << >>
  ELSE ChainTransactions(SubSeq(ch, 1, Len(ch) - 1)) \o ch[Len(ch)].transactions

\* the sum of the amounts of the transactions of txs sent by "COINBASE"
RECURSIVE CoinbaseSum(_)
CoinbaseSum(txs) ==
  IF txs = << >> THEN 0
  ELSE CoinbaseSum(Tail(txs))
         + (IF ~IsShielded(Head(txs)) /\ Head(txs).sender = "COINBASE"
            THEN Head(txs).amount ELSE 0)

\* VeilChain.get_chain_stats(); connected_peers, the count of the peers of
\* the network object, is left out
get_chain_stats(ch, mp, d, commitments, pool, orphans) ==
  LET txs == ChainTransactions(ch)
      Shielded(tx) == IsShielded(tx)
      Transparent(tx) == ~IsShielded(tx)
  IN [total_blocks |-> Len(ch),
      total_transparent_transactions |-> Len(SelectSeq(txs, Transparent)),
      total_shielded_transactions |-> Len(SelectSeq(txs, Shielded)),
      anonymity_set_size |-> Cardinality(commitments),
      difficulty |-> d,
      total_supply |-> CoinbaseSum(txs),
      mempool_size |-> Len(mp.transactions),
      utxo_count |-> Cardinality(DOMAIN pool),
      orphaned_blocks |-> Len(orphans)]

GetChainStats ==
  /\ Idle
  /\ last' = [op |-> "get_chain_stats", arg |-> None,
              ret |-> get_chain_stats(chain, mempool, difficulty, commitment_set, utxos,
                                      orphaned_blocks)]
  /\ UNCHANGED <<chain, difficulty, orphaned_blocks, mempool, nullifier_set,
                 commitment_set, utxos, spent_utxos, now, base, adopted, aside>>

\* a transfer whose sender field is the name the reward transactions carry
TxForgedReward == TransparentTransaction("COINBASE", "alice", 1000000, 0)

\* users submit a transfer, a shielded transaction, or a transfer that
\* names "COINBASE" as its sender
SubmitAsUser ==
  \E transaction \in {TxTransfer, TxShieldB, TxForgedReward} :
    AddTransaction(transaction, DEFAULT_FEE)

NextSupply == Tick \/ Return \/ SubmitAsUser \/ Mine \/ GetChainStats

SpecSupply == InitDefault /\ [][NextSupply]_vars

\* the sum of block_reward(i) over the blocks 1..n
RECURSIVE C35_Rewards(_)
C35_Rewards(n) == IF n = 0 THEN 0 ELSE C35_Rewards(n - 1) + get_block_reward(n)

\* the places in the list txs of the transactions sent by "COINBASE"
C35_Coinbases(txs) ==
  {k \in 1..Len(txs) : ~IsShielded(txs[k]) /\ txs[k].sender = "COINBASE"}

\* C35: a block appended by mine_pending_transactions holds exactly one
\* transaction sent by "COINBASE", of amount block_reward(index of the
\* block); total_supply is the sum of block_reward(i) over the blocks after
\* the genesis block
C35_OneRewardPerBlock ==
  [][/\ (Called("mine_pending_transactions") /\ Len(chain') = Len(chain) + 1) =>
          LET new_block == chain'[Len(chain')]
              rewards == C35_Coinbases(new_block.transactions)
          IN /\ Cardinality(rewards) = 1
             /\ \A k \in rewards :
                  new_block.transactions[k].amount = get_block_reward(new_block.index)
     /\ Called("get_chain_stats") =>
          last'.ret.total_supply = C35_Rewards(Len(chain) - 1)]_vars

\* C36: no two transactions of the blocks of the chain have the same hash,
\* and an add_transaction of a transaction that a block of the chain holds
\* is not admitted
C36_ConfirmedOnce ==
  /\ [](\A i, j \in 1..Len(ChainTransactions(chain)) :
          tx_calculate_hash(ChainTransactions(chain)[i])
            = tx_calculate_hash(ChainTransactions(chain)[j]) => i = j)
  /\ [][(/\ Called("add_transaction")
         /\ \E k \in 1..Len(ChainTransactions(chain)) :
              ChainTransactions(chain)[k] = last'.arg) => ~last'.ret]_vars

\* the shielded transactions the mempool or a block of the chain holds
C37_Held ==
  {mempool.transactions[i].transaction : i \in 1..Len(mempool.transactions)}
    \cup {ChainTransactions(chain)[k] : k \in 1..Len(ChainTransactions(chain))}

\* C37: every nullifier of nullifier_set is the nullifier of a shielded
\* transaction that the mempool or a block of the chain holds
C37_NullifiersAreHeld ==
  \A nullifier \in nullifier_set :
    \E tx \in C37_Held : IsShielded(tx) /\ tx.nullifier = nullifier

\* C38: the root of the tree over a non-empty list of leaves is the root of
\* no other non-empty list of leaves, a list that repeats the last leaf
\* included
C38_RootFixesLeaves ==
  [][(Called("get_root_hash") /\ merkle_tree # << >>) =>
       \A other \in ListsOver(LeafHashes, MaxLeaves) :
         (other # << >> /\ other # merkle_tree) =>
           get_root_hash(other) # last'.ret]_vars

(***************************************************************************)
(* Chains of peers with a first block of their own                         *)
(***************************************************************************)
\* the first block of the chain of a peer: the genesis block of this node;
\* that block with a transaction put in after it was hashed; a mined block
\* with index 1 and a reward
FirstBlocks ==
  LET g == GenesisBlock(DEFAULT_DIFFICULTY, 0)
  IN {g, [g EXCEPT !.transactions = <<TxForgedReward>>], FlavouredBlock(g, "honest")}

\* the chain of a peer: a first block and n blocks honest peers mined on it
RootedChains ==
  {Extend(<<first>>, n) : first \in FirstBlocks, n \in 0..(MaxBlocks + 1)}

\* the chain of a peer is validated in a VeilChain of its own
AuditRootedChain == \E ch \in RootedChains : IsChainValid(ch)

\* a peer hands over its chain
ReorganizeRooted == \E ch \in RootedChains : HandleChainReorganization(ch)

NextRooted == Tick \/ Return \/ Mine \/ AuditRootedChain \/ ReorganizeRooted

SpecRooted == InitDefault /\ [][NextRooted]_vars

\* b is a genesis block: index 0, previous_hash "0", no transactions
C40_IsGenesis(b) ==
  b.index = 0 /\ b.previous_hash = DigitStr(0) /\ b.transactions = << >>

\* the stored hash of b is its recomputed hash and its Merkle root verifies
C40_Consistent(b) == b.hash = Block_calculate_hash(b) /\ verify_merkle_root(b)

\* C40: a chain for which is_chain_valid returns true has in every place,
\* the first included, a block whose hash recomputes and whose Merkle root
\* verifies, and its first block is a genesis block; so has the chain a
\* reorganization adopts
C40_FirstBlockIsChecked ==
  [][/\ (Called("is_chain_valid") /\ last'.ret) =>
          /\ \A i \in 1..Len(last'.arg) : C40_Consistent(last'.arg[i])
          /\ C40_IsGenesis(last'.arg[1])
     /\ (Called("handle_chain_reorganization") /\ last'.ret) =>
          /\ \A i \in 1..Len(chain') : C40_Consistent(chain'[i])
          /\ C40_IsGenesis(chain'[1])]_vars
====
